---- MODULE Spec2Model ----
(* Verification model of telegram-roles-bot: the SQL role directory        *)
(* (internal/bot/bot.go, package store), the schema it runs on             *)
(* (internal/database/database.go), the sliding-window rate limiter and    *)
(* admission gate (internal/middleware/security.go), the command           *)
(* dispatcher (internal/handlers/commands.go) and the update loop.         *)
(*                                                                         *)
(* Strings are sequences of one-character strings, so that trimming,       *)
(* case folding, truncation and splitting are computed, not assumed.       *)
EXTENDS Integers, Sequences, FiniteSets, TLC

(***************************************************************************)
(* Bounds of the model.                                                    *)
(***************************************************************************)
\* utils.SanitizeInput caps at 100 bytes; the model scales the cap down so
\* that strings past the cap are among the inputs.
maxInputLength == 2
\* AUTOINCREMENT ids handed out per table
MaxRoleId == 2
MaxUserId == 2
\* rate limiter: clock range, largest limit and window drawn at construction
MaxTime == 2
MaxLimit == 2
MaxWindow == 2
\* ValidateMessage rejects texts above 4000 bytes; the model scales the limit
\* down to a length its messages reach
telegramMessageLimit == 20

(***************************************************************************)
(* Strings (pkg/utils, Go package strings)                                 *)
(***************************************************************************)
IsSpace(c) == c \in {" ", "\n", "\r", "\t"}

RECURSIVE TrimLeft(_)
TrimLeft(s) ==
    IF s # <<>> /\ IsSpace(Head(s)) THEN TrimLeft(Tail(s)) ELSE s

RECURSIVE TrimRight(_)
TrimRight(s) ==
    IF s # <<>> /\ IsSpace(s[Len(s)]) THEN TrimRight(SubSeq(s, 1, Len(s) - 1)) ELSE s

\* strings.TrimSpace
TrimSpace(s) == TrimRight(TrimLeft(s))

\* strings.ReplaceAll(s, "\n", " ") then strings.ReplaceAll(s, "\r", " ")
ReplaceNewlines(s) == [i \in 1..Len(s) |-> IF s[i] \in {"\n", "\r"} THEN " " ELSE s[i]]

LowerChar(c) == IF c = "A" THEN "a" ELSE IF c = "B" THEN "b" ELSE IF c = "C" THEN "c" ELSE c

\* strings.ToLower
ToLower(s) == [i \in 1..Len(s) |-> LowerChar(s[i])]

\* a character outside ASCII, written by its code point: one character, two
\* bytes in UTF-8
TwoByteChar == "U+00E9"

\* len(s) of a Go string: the bytes of its UTF-8 encoding
RECURSIVE ByteLen(_)
ByteLen(s) ==
    IF s = <<>> THEN 0
    ELSE (IF Head(s) = TwoByteChar THEN 2 ELSE 1) + ByteLen(Tail(s))

\* strings.TrimPrefix(s, "@")
TrimPrefixAt(s) == IF s # <<>> /\ Head(s) = "@" THEN Tail(s) ELSE s

SanitizeInput(input) ==
    LET t == ReplaceNewlines(TrimSpace(input))
    IN  IF Len(t) > maxInputLength THEN SubSeq(t, 1, maxInputLength) ELSE t

\* SanitizeUsername without the strings.TrimPrefix(username, "@")
SanitizeUsernameKeepAt(username) == ToLower(SanitizeInput(username))

SanitizeUsername(username) == TrimPrefixAt(ToLower(SanitizeInput(username)))

\* SanitizeRoleName without the strings.ToLower
SanitizeRoleNameKeepCase(roleName) == SanitizeInput(roleName)

SanitizeRoleName(roleName) == ToLower(SanitizeInput(roleName))

(***************************************************************************)
(* The database: schema of createTables and the SQL statements the store   *)
(* executes, each as a function of a database value d.                     *)
(*   d.roles      rows [id, name]        name UNIQUE, id AUTOINCREMENT     *)
(*   d.users      rows [id, name]        name UNIQUE, id AUTOINCREMENT     *)
(*   d.role_users rows [role_id, user_id] PRIMARY KEY (role_id, user_id),  *)
(*                foreign keys ON DELETE CASCADE (foreign_keys=ON)         *)
(*   d.seqRoles, d.seqUsers  the sqlite_sequence counters                  *)
(***************************************************************************)
EmptyDB ==
    [roles |-> {}, users |-> {}, role_users |-> {}, seqRoles |-> 0, seqUsers |-> 0]

RoleIds(d, name) == {r.id : r \in {x \in d.roles : x.name = name}}
UserIds(d, name) == {u.id : u \in {x \in d.users : x.name = name}}

\* SELECT EXISTS(SELECT 1 FROM roles WHERE name = ?)
RoleExists(d, name) == RoleIds(d, name) # {}

\* the INSERT on a roles table whose name column is not UNIQUE
InsertRoleNoUnique(d, name) ==
    [db |-> [d EXCEPT !.roles = @ \cup {[id |-> d.seqRoles + 1, name |-> name]},
                      !.seqRoles = @ + 1],
     err |-> "nil"]

\* INSERT INTO roles (name) VALUES (?)
InsertRole(d, name) ==
    IF RoleExists(d, name)
    THEN [db |-> d, err |-> "UNIQUE constraint failed"]
    ELSE [db |-> [d EXCEPT !.roles = @ \cup {[id |-> d.seqRoles + 1, name |-> name]},
                           !.seqRoles = @ + 1],
          err |-> "nil"]

\* the foreign-key action of role_users.role_id without ON DELETE CASCADE
\* enforcement (foreign_keys off): the edges stay
CascadeOff(edges, ids) == edges

\* a cascade that takes the edges of every role along
CascadeEveryEdge(edges, ids) == IF ids = {} THEN edges ELSE {}

\* FOREIGN KEY(role_id) REFERENCES roles(id) ON DELETE CASCADE
CascadeRoleUsers(edges, ids) == {e \in edges : e.role_id \notin ids}

\* the DELETE on a schema whose role ids are plain rowids (the largest is
\* handed out again once its row is gone) and whose edges are not cascaded
DeleteRoleLeavingEdges(d, name) ==
    LET ids == RoleIds(d, name)
        left == {r \in d.roles : r.id \notin ids}
    IN  [db |-> [d EXCEPT !.roles = left,
                          !.seqRoles = IF left = {} THEN 0
                                       ELSE CHOOSE m \in {r.id : r \in left} :
                                                \A r \in left : r.id <= m],
         rowsAffected |-> Cardinality(ids)]

\* DELETE FROM roles WHERE name = ?
DeleteRole(d, name) ==
    LET ids == RoleIds(d, name)
    IN  [db |-> [d EXCEPT !.roles = {r \in @ : r.id \notin ids},
                          !.role_users = CascadeRoleUsers(@, ids)],
         rowsAffected |-> Cardinality(ids)]

\* INSERT OR IGNORE INTO users (name) VALUES (?)
InsertOrIgnoreUser(d, name) ==
    IF UserIds(d, name) # {}
    THEN d
    ELSE [d EXCEPT !.users = @ \cup {[id |-> d.seqUsers + 1, name |-> name]},
                   !.seqUsers = @ + 1]

\* the rows SELECT r.id, u.id FROM roles r, users u WHERE r.name = ? AND u.name = ?
SelectedPairs(d, role, user) ==
    {[role_id |-> rid, user_id |-> uid] : rid \in RoleIds(d, role), uid \in UserIds(d, user)}

\* a plain INSERT INTO role_users: a row that is already there violates the
\* primary key
InsertRoleUserStrict(d, role, user) ==
    IF SelectedPairs(d, role, user) \cap d.role_users # {}
    THEN [db |-> d, err |-> "UNIQUE constraint failed"]
    ELSE [db |-> [d EXCEPT !.role_users = @ \cup SelectedPairs(d, role, user)], err |-> "nil"]

\* INSERT OR IGNORE INTO role_users (role_id, user_id) SELECT ...
InsertOrIgnoreRoleUser(d, role, user) ==
    [db |-> [d EXCEPT !.role_users = @ \cup SelectedPairs(d, role, user)], err |-> "nil"]

\* a DELETE whose WHERE clause forgets the user: when the edge is there, every
\* edge of the role goes
DeleteRoleUsersOfRole(d, role, user) ==
    LET hit == {e \in d.role_users :
                   e.role_id \in RoleIds(d, role) /\ e.user_id \in UserIds(d, user)}
        all == {e \in d.role_users : e.role_id \in RoleIds(d, role)}
    IN  [db |-> [d EXCEPT !.role_users = IF hit = {} THEN @ ELSE @ \ all],
         rowsAffected |-> IF hit = {} THEN 0 ELSE Cardinality(all)]

\* DELETE FROM role_users WHERE role_id = (SELECT ...) AND user_id = (SELECT ...)
DeleteRoleUser(d, role, user) ==
    LET hit == {e \in d.role_users :
                   e.role_id \in RoleIds(d, role) /\ e.user_id \in UserIds(d, user)}
    IN  [db |-> [d EXCEPT !.role_users = @ \ hit], rowsAffected |-> Cardinality(hit)]

\* a return path that leaves the statements already executed in place
RollbackKeepsWrites(committed, working) == working

\* tx.Rollback(): the working copy is discarded, the committed database stays
Rollback(committed, working) == committed

\* tx.Commit(): the working copy becomes the committed database
Commit(committed, working) == working

\* an error text that is never recognised as a uniqueness violation
UniqueViolationMissed(err) == FALSE

\* strings.Contains(err.Error(), "UNIQUE constraint failed")
UniqueViolation(err) == err = "UNIQUE constraint failed"

\* which INSERT INTO users would need a fresh id beyond the model's cap
UserIdAvailable(d, name) == UserIds(d, name) # {} \/ d.seqUsers < MaxUserId
RoleIdAvailable(d, name) == RoleExists(d, name) \/ d.seqRoles < MaxRoleId

(***************************************************************************)
(* ORDER BY name: SQLite compares TEXT byte by byte (BINARY collation)     *)
(***************************************************************************)
CharCode(c) ==
    CASE c = "\t" -> 9 [] c = "\n" -> 10 [] c = "\r" -> 13 [] c = " " -> 32
      [] c = "@" -> 64 [] c = "A" -> 65 [] c = "B" -> 66 [] c = "C" -> 67
      [] c = "a" -> 97 [] c = "b" -> 98 [] c = "c" -> 99 [] OTHER -> 127

RECURSIVE StrLess(_, _)
StrLess(x, y) ==
    IF y = <<>> THEN FALSE
    ELSE IF x = <<>> THEN TRUE
    ELSE IF Head(x) # Head(y) THEN CharCode(Head(x)) < CharCode(Head(y))
    ELSE StrLess(Tail(x), Tail(y))

\* ORDER BY name DESC
RECURSIVE OrderByNameDesc(_)
OrderByNameDesc(rows) ==
    IF rows = {} THEN <<>>
    ELSE LET first == CHOOSE r \in rows :
                          \A o \in rows \ {r} :
                              StrLess(o.name, r.name) \/ (r.name = o.name /\ r.id < o.id)
         IN  <<first.name>> \o OrderByNameDesc(rows \ {first})

\* the rows of a result set, each [id, name], as the sequence ORDER BY name
\* delivers (rows of equal name in the order of their ids)
RECURSIVE OrderByName(_)
OrderByName(rows) ==
    IF rows = {} THEN <<>>
    ELSE LET first == CHOOSE r \in rows :
                          \A o \in rows \ {r} :
                              StrLess(r.name, o.name) \/ (r.name = o.name /\ r.id < o.id)
         IN  <<first.name>> \o OrderByName(rows \ {first})

\* SELECT u.name FROM users u JOIN role_users ru ON u.id = ru.user_id
\*   JOIN roles r ON r.id = ru.role_id WHERE r.name = ? ORDER BY u.name
SelectUsersInRole(d, role) ==
    LET joined == {x \in d.role_users \X d.users :
                      /\ x[2].id = x[1].user_id
                      /\ x[1].role_id \in RoleIds(d, role)}
    IN  OrderByName({[id |-> <<x[1].role_id, x[1].user_id>>, name |-> x[2].name] : x \in joined})

\* SELECT name FROM roles ORDER BY name
SelectAllRoles(d) == OrderByName(d.roles)

(***************************************************************************)
(* The store's methods as whole calls of one caller: the value is the      *)
(* database after the call and the error returned.                         *)
(***************************************************************************)
CreateRole(d, rawRole) ==
    LET role == SanitizeRoleName(rawRole)
        r == InsertRole(d, role)
    IN  IF role = <<>> THEN [db |-> d, err |-> "ErrInvalidInput"]
        ELSE IF r.err = "nil" THEN [db |-> r.db, err |-> "nil"]
        ELSE IF UniqueViolation(r.err) THEN [db |-> d, err |-> "ErrRoleAlreadyExists"]
        ELSE [db |-> d, err |-> "StorageFailure"]

RemoveRole(d, rawRole) ==
    LET role == SanitizeRoleName(rawRole)
        r == DeleteRole(d, role)
    IN  IF role = <<>> THEN [db |-> d, err |-> "ErrInvalidInput"]
        ELSE IF r.rowsAffected = 0 THEN [db |-> r.db, err |-> "ErrRoleNotFound"]
        ELSE [db |-> r.db, err |-> "nil"]

\* AddUserToRole with the emptiness checks made on the arguments as passed
AddUserToRoleRawCheck(d, rawRole, rawUser) ==
    LET role == SanitizeRoleName(rawRole)
        user == SanitizeUsername(rawUser)
        t1 == InsertOrIgnoreUser(d, user)
        r == InsertOrIgnoreRoleUser(t1, role, user)
    IN  IF rawRole = <<>> \/ rawUser = <<>> THEN [db |-> d, err |-> "ErrInvalidInput"]
        ELSE IF ~RoleExists(t1, role) THEN [db |-> Rollback(d, t1), err |-> "ErrRoleNotFound"]
        ELSE IF r.err # "nil" THEN [db |-> Rollback(d, t1), err |-> "StorageFailure"]
        ELSE [db |-> Commit(d, r.db), err |-> "nil"]

AddUserToRole(d, rawRole, rawUser) ==
    LET role == SanitizeRoleName(rawRole)
        user == SanitizeUsername(rawUser)
        t1 == InsertOrIgnoreUser(d, user)
        r == InsertOrIgnoreRoleUser(t1, role, user)
    IN  IF role = <<>> \/ user = <<>> THEN [db |-> d, err |-> "ErrInvalidInput"]
        ELSE IF ~RoleExists(t1, role) THEN [db |-> Rollback(d, t1), err |-> "ErrRoleNotFound"]
        ELSE IF r.err # "nil" THEN [db |-> Rollback(d, t1), err |-> "StorageFailure"]
        ELSE [db |-> Commit(d, r.db), err |-> "nil"]

RemoveUserFromRole(d, rawRole, rawUser) ==
    LET role == SanitizeRoleName(rawRole)
        user == SanitizeUsername(rawUser)
        r == DeleteRoleUser(d, role, user)
    IN  IF role = <<>> \/ user = <<>> THEN [db |-> d, err |-> "ErrInvalidInput"]
        ELSE IF r.rowsAffected = 0 THEN [db |-> r.db, err |-> "ErrUserNotFound"]
        ELSE [db |-> r.db, err |-> "nil"]

\* a GetUsersInRole that reports a role that is not there
GetUsersInRoleStrict(d, rawRole) ==
    LET role == SanitizeRoleName(rawRole)
    IN  IF role = <<>> THEN [users |-> <<>>, err |-> "ErrInvalidInput"]
        ELSE IF ~RoleExists(d, role) THEN [users |-> <<>>, err |-> "ErrRoleNotFound"]
        ELSE [users |-> SelectUsersInRole(d, role), err |-> "nil"]

GetUsersInRole(d, rawRole) ==
    LET role == SanitizeRoleName(rawRole)
    IN  IF role = <<>> THEN [users |-> <<>>, err |-> "ErrInvalidInput"]
        ELSE [users |-> SelectUsersInRole(d, role), err |-> "nil"]

GetAllRoles(d) == [roles |-> SelectAllRoles(d), err |-> "nil"]

(***************************************************************************)
(* State                                                                   *)
(***************************************************************************)
VARIABLES
    db,        \* the committed database every connection reads
    lock,      \* the caller holding SQLite's single write lock, or "none"
    pc,        \* per caller: position inside its store call
    call,      \* per caller: [op, raw, role, user], names as sanitized by the call
    res,       \* per caller: the error value the call returned
    tx,        \* per caller: the working copy of its open transaction
    hist,      \* bookkeeping about the calls in flight (not program state)
    cfg,       \* the configuration the components were constructed with
    clock,     \* what time.Now() returns
    requests,  \* RateLimiter.requests: requester id -> timestamps, keys created lazily
    mu,        \* RateLimiter.mu: the goroutine holding it, or "none"
    rl,        \* per goroutine: its Allow call [pc, user, now, ok] and bookkeeping
    admitted,  \* per requester: the timestamps Allow admitted, see StillInReach (not program state)
    race,      \* bookkeeping about two Allow calls in flight together (not program state)
    last,      \* the latest call of the single caller: what it passed and got back
    ev,        \* the latest update the bot handled and what became of it
    ctx,       \* the context main passes to Start: "live" or "cancelled"
    scn        \* the scripted run of one caller: its names, the calls made, what they returned

dirVars == <<db, lock, pc, call, res, tx, hist>>
rlVars == <<cfg, clock, requests, mu, rl, admitted, race>>

vars == <<db, lock, pc, call, res, tx, hist, cfg, clock, requests, mu, rl, admitted, race, last, ev,
          ctx, scn>>

\* what the callers of the store leave alone
notDir == <<cfg, clock, requests, mu, rl, admitted, race, last, ev, ctx, scn>>
\* what the rate limiter leaves alone
notRL == <<db, lock, pc, call, res, tx, hist, last, ev, ctx, scn>>
\* what the bot's consumption loop leaves alone
notBot == <<lock, pc, call, res, tx, hist, mu, rl, admitted, race, last, scn>>
\* what a single caller of the store leaves alone
notSeq == <<lock, pc, call, res, tx, hist, cfg, clock, requests, mu, rl, admitted, race, ev, ctx>>

(***************************************************************************)
(* Concurrent callers of the store (SQLStore), statement by statement.     *)
(* database/sql hands each call its own connection; SQLite admits one      *)
(* writer at a time and a statement that needs the write lock waits for it *)
(* (busy handler).  Readers and writers see only committed data.           *)
(***************************************************************************)
Procs == {"c1", "c2"}

ConcRoleInputs == {<<"a">>, <<"A">>, <<"b">>, <<" ">>}
ConcUserInputs == {<<"a">>, <<"@", "a">>, <<"b">>}

NoCall == [op |-> "none", raw |-> <<>>, role |-> <<>>, user |-> <<>>]

\* hist: [on]   the two callers' current calls were in flight at the same time
\*       [pre]  the role named by the later call existed when it was entered
\*       [edge] "added" once an AddUserToRole of the pair has inserted or found
\*              its edge, "cascaded" once a RemoveRole has then deleted it
\*       [gone] how many edges the RemoveRole that returned last cascaded away
NoRace == [on |-> FALSE, pre |-> FALSE, edge |-> "none", gone |-> 0]

InFlight(p) == pc[p] \notin {"idle", "done"}

\* bookkeeping at the entry of a call
Enter(p, role) ==
    hist' = IF \E q \in Procs \ {p} : InFlight(q)
            THEN [on |-> TRUE, pre |-> RoleExists(db, role), edge |-> "none", gone |-> 0]
            ELSE NoRace

\* a writer that does not wait for the write lock
WriteLockIgnored == TRUE

\* the write lock is free: a statement that writes may start
WriteLockFree == lock = "none"

DirInit ==
    /\ db = EmptyDB
    /\ lock = "none"
    /\ pc = [p \in Procs |-> "idle"]
    /\ call = [p \in Procs |-> NoCall]
    /\ res = [p \in Procs |-> "nil"]
    /\ tx = [p \in Procs |-> EmptyDB]
    /\ hist = NoRace

\* CreateRole: sanitize, reject the empty name, then one INSERT
CreateRoleCall(p, raw) ==
    LET role == SanitizeRoleName(raw) IN
    /\ pc[p] = "idle"
    /\ call' = [call EXCEPT ![p] = [op |-> "CreateRole", raw |-> raw, role |-> role, user |-> <<>>]]
    /\ Enter(p, role)
    /\ IF role = <<>>
       THEN pc' = [pc EXCEPT ![p] = "done"] /\ res' = [res EXCEPT ![p] = "ErrInvalidInput"]
       ELSE pc' = [pc EXCEPT ![p] = "create"] /\ res' = [res EXCEPT ![p] = "nil"]
    /\ UNCHANGED <<db, lock, tx>>
    /\ UNCHANGED notDir

CreateRoleExec(p) ==
    LET r == InsertRole(db, call[p].role) IN
    /\ pc[p] = "create"
    /\ WriteLockFree
    /\ RoleIdAvailable(db, call[p].role)
    /\ db' = r.db
    /\ res' = [res EXCEPT ![p] = IF r.err = "nil" THEN "nil"
                                  ELSE IF UniqueViolation(r.err) THEN "ErrRoleAlreadyExists"
                                  ELSE "StorageFailure"]
    /\ pc' = [pc EXCEPT ![p] = "done"]
    /\ UNCHANGED <<lock, call, tx, hist>>
    /\ UNCHANGED notDir

\* RemoveRole: sanitize, reject the empty name, then one DELETE
RemoveRoleCall(p, raw) ==
    LET role == SanitizeRoleName(raw) IN
    /\ pc[p] = "idle"
    /\ call' = [call EXCEPT ![p] = [op |-> "RemoveRole", raw |-> <<>>, role |-> role, user |-> <<>>]]
    /\ Enter(p, role)
    /\ IF role = <<>>
       THEN pc' = [pc EXCEPT ![p] = "done"] /\ res' = [res EXCEPT ![p] = "ErrInvalidInput"]
       ELSE pc' = [pc EXCEPT ![p] = "remove"] /\ res' = [res EXCEPT ![p] = "nil"]
    /\ UNCHANGED <<db, lock, tx>>
    /\ UNCHANGED notDir

\* the edges an AddUserToRole in flight or returned has inserted or found
EdgesOfAdds ==
    UNION {SelectedPairs(db, call[q].role, call[q].user) :
              q \in {x \in Procs : call[x].op = "AddUserToRole"}}

RemoveRoleExec(p) ==
    LET r == DeleteRole(db, call[p].role) IN
    /\ pc[p] = "remove"
    /\ WriteLockFree
    /\ db' = r.db
    /\ res' = [res EXCEPT ![p] = IF r.rowsAffected = 0 THEN "ErrRoleNotFound" ELSE "nil"]
    /\ pc' = [pc EXCEPT ![p] = "done"]
    /\ hist' = [hist EXCEPT
                   !.edge = IF @ = "added" /\ EdgesOfAdds # {}
                               /\ EdgesOfAdds \subseteq (db.role_users \ r.db.role_users)
                            THEN "cascaded" ELSE @,
                   !.gone = Cardinality(db.role_users \ r.db.role_users)]
    /\ UNCHANGED <<lock, call, tx>>
    /\ UNCHANGED notDir

\* AddUserToRole: sanitize both, reject empties, db.Begin()
AddUserToRoleCall(p, rawRole, rawUser) ==
    LET role == SanitizeRoleName(rawRole)
        user == SanitizeUsername(rawUser) IN
    /\ pc[p] = "idle"
    /\ call' = [call EXCEPT ![p] = [op |-> "AddUserToRole", raw |-> <<>>, role |-> role, user |-> user]]
    /\ Enter(p, role)
    /\ IF role = <<>> \/ user = <<>>
       THEN pc' = [pc EXCEPT ![p] = "done"] /\ res' = [res EXCEPT ![p] = "ErrInvalidInput"]
       ELSE pc' = [pc EXCEPT ![p] = "upsert"] /\ res' = [res EXCEPT ![p] = "nil"]
    /\ UNCHANGED <<db, lock, tx>>
    /\ UNCHANGED notDir

\* tx.Exec(INSERT OR IGNORE INTO users): the first statement of the deferred
\* transaction takes the write lock and starts from the committed database
AddUserToRoleUpsert(p) ==
    /\ pc[p] = "upsert"
    /\ WriteLockFree
    /\ UserIdAvailable(db, call[p].user)
    /\ lock' = p
    /\ tx' = [tx EXCEPT ![p] = InsertOrIgnoreUser(db, call[p].user)]
    /\ pc' = [pc EXCEPT ![p] = "check"]
    /\ UNCHANGED <<db, call, res, hist>>
    /\ UNCHANGED notDir

\* tx.QueryRow(SELECT EXISTS ...); a missing role returns ErrRoleNotFound and
\* the deferred tx.Rollback() discards the transaction
AddUserToRoleCheck(p) ==
    /\ pc[p] = "check"
    /\ IF RoleExists(tx[p], call[p].role)
       THEN /\ pc' = [pc EXCEPT ![p] = "insert"]
            /\ UNCHANGED <<db, lock, tx, res>>
       ELSE /\ pc' = [pc EXCEPT ![p] = "done"]
            /\ res' = [res EXCEPT ![p] = "ErrRoleNotFound"]
            /\ db' = Rollback(db, tx[p])
            /\ lock' = IF lock = p THEN "none" ELSE lock
            /\ tx' = [tx EXCEPT ![p] = EmptyDB]
    /\ UNCHANGED <<call, hist>>
    /\ UNCHANGED notDir

\* tx.Exec(INSERT OR IGNORE INTO role_users ... SELECT ...)
AddUserToRoleInsert(p) ==
    LET r == InsertOrIgnoreRoleUser(tx[p], call[p].role, call[p].user) IN
    /\ pc[p] = "insert"
    /\ IF r.err = "nil"
       THEN /\ tx' = [tx EXCEPT ![p] = r.db]
            /\ pc' = [pc EXCEPT ![p] = "commit"]
            /\ UNCHANGED <<db, lock, res>>
       ELSE /\ pc' = [pc EXCEPT ![p] = "done"]
            /\ res' = [res EXCEPT ![p] = "StorageFailure"]
            /\ db' = Rollback(db, tx[p])
            /\ lock' = IF lock = p THEN "none" ELSE lock
            /\ tx' = [tx EXCEPT ![p] = EmptyDB]
    /\ UNCHANGED <<call, hist>>
    /\ UNCHANGED notDir

\* tx.Commit()
AddUserToRoleCommit(p) ==
    /\ pc[p] = "commit"
    /\ db' = Commit(db, tx[p])
    /\ lock' = IF lock = p THEN "none" ELSE lock
    /\ tx' = [tx EXCEPT ![p] = EmptyDB]
    /\ res' = [res EXCEPT ![p] = "nil"]
    /\ pc' = [pc EXCEPT ![p] = "done"]
    /\ hist' = IF hist.on /\ SelectedPairs(tx[p], call[p].role, call[p].user) \subseteq tx[p].role_users
                  /\ SelectedPairs(tx[p], call[p].role, call[p].user) # {}
               THEN [hist EXCEPT !.edge = "added"]
               ELSE hist
    /\ UNCHANGED <<call>>
    /\ UNCHANGED notDir

\* RemoveUserFromRole: sanitize both, reject empties, then one DELETE
RemoveUserFromRoleCall(p, rawRole, rawUser) ==
    LET role == SanitizeRoleName(rawRole)
        user == SanitizeUsername(rawUser) IN
    /\ pc[p] = "idle"
    /\ call' = [call EXCEPT ![p] = [op |-> "RemoveUserFromRole", raw |-> <<>>, role |-> role, user |-> user]]
    /\ Enter(p, role)
    /\ IF role = <<>> \/ user = <<>>
       THEN pc' = [pc EXCEPT ![p] = "done"] /\ res' = [res EXCEPT ![p] = "ErrInvalidInput"]
       ELSE pc' = [pc EXCEPT ![p] = "rmuser"] /\ res' = [res EXCEPT ![p] = "nil"]
    /\ UNCHANGED <<db, lock, tx>>
    /\ UNCHANGED notDir

RemoveUserFromRoleExec(p) ==
    LET r == DeleteRoleUser(db, call[p].role, call[p].user) IN
    /\ pc[p] = "rmuser"
    /\ WriteLockFree
    /\ db' = r.db
    /\ res' = [res EXCEPT ![p] = IF r.rowsAffected = 0 THEN "ErrUserNotFound" ELSE "nil"]
    /\ pc' = [pc EXCEPT ![p] = "done"]
    /\ UNCHANGED <<lock, call, tx, hist>>
    /\ UNCHANGED notDir

\* the call has returned; the caller is free to make its next call
Return(p) ==
    /\ pc[p] = "done"
    /\ pc' = [pc EXCEPT ![p] = "idle"]
    /\ call' = [call EXCEPT ![p] = NoCall]
    /\ res' = [res EXCEPT ![p] = "nil"]
    /\ hist' = NoRace
    /\ UNCHANGED <<db, lock, tx>>
    /\ UNCHANGED notDir



(***************************************************************************)
(* The rate limiter (middleware.RateLimiter), one goroutine per Allow call *)
(***************************************************************************)
Goroutines == {"g1", "g2"}
Requesters == {1, 2}

\* NewRateLimiter(limit, window): any limit and any window
Configs == [limit : 0..MaxLimit, window : 1..MaxWindow]

\* rl.requests[userID]: a missing key reads as the nil slice
Lookup(reqs, u) == IF u \in DOMAIN reqs THEN reqs[u] ELSE <<>>

\* a prune that also keeps the timestamp lying exactly on the cutoff
KeptFromCutoff(ts, cutoff) == ts >= cutoff

\* req.After(cutoff)
After(ts, cutoff) == ts > cutoff

\* the loop building validRequests
Prune(reqs, cutoff) == SelectSeq(reqs, LAMBDA ts : After(ts, cutoff))

\* a limit check that rejects only above the limit
OverLimitOffByOne(n, limit) == n > limit

\* len(rl.requests[userID]) >= rl.limit
AtLimit(n, limit) == n >= limit

\* a caller that does not take the mutex
MutexIgnored == TRUE

\* rl.mu can be locked
MutexFree == mu = "none"

\* [aged] the prune of the call dropped a stored timestamp (bookkeeping)
NoAllow == [pc |-> "idle", user |-> 0, now |-> 0, ok |-> FALSE, aged |-> FALSE]

\* race: [on]   the current calls are for one requester and were both entered
\*              before either counted its window
\*       [who]  the goroutine of them that took the mutex first, [seen] the
\*              number of timestamps it counted after pruning (-1: not recorded)
\*       [drop] the prune of the goroutine that came second dropped a timestamp
NoRaceRL == [on |-> FALSE, who |-> "none", seen |-> -1, drop |-> FALSE]

RLQuiet ==
    /\ clock = 0
    /\ requests = <<>>
    /\ mu = "none"
    /\ rl = [g \in Goroutines |-> NoAllow]
    /\ admitted = [u \in Requesters |-> <<>>]
    /\ race = NoRaceRL

RLInFlight(g) == rl[g].pc \notin {"idle", "done"}

\* Allow(userID) is entered
AllowCall(g, u) ==
    /\ rl[g].pc = "idle"
    /\ rl' = [rl EXCEPT ![g] = [NoAllow EXCEPT !.pc = "lock", !.user = u]]
    /\ race' = [race EXCEPT !.on = \E h \in Goroutines \ {g} : rl[h].pc \in {"lock", "prune", "check"}
                                                                 /\ rl[h].user = u,
                            !.drop = FALSE]
    /\ UNCHANGED <<cfg, clock, requests, mu, admitted>>
    /\ UNCHANGED notRL

\* rl.mu.Lock()
AllowLock(g) ==
    /\ rl[g].pc = "lock"
    /\ MutexFree
    /\ mu' = g
    /\ rl' = [rl EXCEPT ![g].pc = "prune"]
    /\ UNCHANGED <<cfg, clock, requests, admitted, race>>
    /\ UNCHANGED notRL

\* now := time.Now(); cutoff := now.Add(-rl.window); the stored timestamps of
\* an existing key are replaced by those after the cutoff
AllowPrune(g) ==
    LET u == rl[g].user
        cutoff == clock - cfg.window
    IN
    /\ rl[g].pc = "prune"
    /\ requests' = IF u \in DOMAIN requests
                   THEN [requests EXCEPT ![u] = Prune(requests[u], cutoff)]
                   ELSE requests
    /\ rl' = [rl EXCEPT ![g].pc = "check", ![g].now = clock,
                        ![g].aged = Len(Prune(Lookup(requests, u), cutoff))
                                      < Len(Lookup(requests, u))]
    /\ race' = IF race.who \notin {"none", g} /\ race.on
               THEN [race EXCEPT !.drop = Len(Prune(Lookup(requests, u), cutoff))
                                              < Len(Lookup(requests, u))]
               ELSE race
    /\ UNCHANGED <<cfg, clock, mu, admitted>>
    /\ UNCHANGED notRL

\* a rejection that still stores the time of the request
RejectedRecorded(reqs, u, now) ==
    [x \in DOMAIN reqs \cup {u} |-> IF x = u THEN Append(Lookup(reqs, u), now) ELSE reqs[x]]

\* return false: the map is left as the prune made it
Rejected(reqs, u, now) == reqs

\* a count over the windows of all requesters
RECURSIVE CountedOverall(_, _)
CountedOverall(reqs, u) ==
    IF DOMAIN reqs = {} THEN 0
    ELSE LET x == CHOOSE k \in DOMAIN reqs : TRUE
         IN  Len(reqs[x]) + CountedOverall([k \in DOMAIN reqs \ {x} |-> reqs[k]], u)

\* len(rl.requests[userID])
Counted(reqs, u) == Len(Lookup(reqs, u))

\* if len(rl.requests[userID]) >= rl.limit { return false }
AllowCheck(g) ==
    LET n == Counted(requests, rl[g].user) IN
    /\ rl[g].pc = "check"
    /\ rl' = [rl EXCEPT ![g].ok = FALSE,
                        ![g].pc = IF AtLimit(n, cfg.limit) THEN "unlock" ELSE "append"]
    /\ requests' = IF AtLimit(n, cfg.limit) THEN Rejected(requests, rl[g].user, rl[g].now)
                   ELSE requests
    /\ race' = IF race.who = "none"
               THEN [race EXCEPT !.who = g, !.seen = IF race.on THEN n ELSE -1]
               ELSE race
    /\ UNCHANGED <<cfg, clock, mu, admitted>>
    /\ UNCHANGED notRL

\* rl.requests[userID] = append(rl.requests[userID], now); return true
AllowAppend(g) ==
    LET u == rl[g].user IN
    /\ rl[g].pc = "append"
    /\ requests' = [x \in DOMAIN requests \cup {u} |->
                       IF x = u THEN Append(Lookup(requests, u), rl[g].now) ELSE requests[x]]
    /\ admitted' = [admitted EXCEPT ![u] = Append(@, rl[g].now)]
    /\ rl' = [rl EXCEPT ![g].ok = TRUE, ![g].pc = "unlock"]
    /\ UNCHANGED <<cfg, clock, mu, race>>
    /\ UNCHANGED notRL

\* the deferred rl.mu.Unlock()
AllowUnlock(g) ==
    /\ rl[g].pc = "unlock"
    /\ mu' = IF mu = g THEN "none" ELSE mu
    /\ rl' = [rl EXCEPT ![g].pc = "done"]
    /\ UNCHANGED <<cfg, clock, requests, admitted, race>>
    /\ UNCHANGED notRL

\* the caller has the result and may call again
AllowReturn(g) ==
    /\ rl[g].pc = "done"
    /\ rl' = [rl EXCEPT ![g] = NoAllow]
    /\ race' = IF \E h \in Goroutines \ {g} : rl[h].pc \in {"append", "unlock", "done"}
               THEN [on |-> FALSE, drop |-> FALSE,
                     who |-> CHOOSE h \in Goroutines \ {g} : rl[h].pc \in {"append", "unlock", "done"},
                     seen |-> -1]
               ELSE NoRaceRL
    /\ UNCHANGED <<cfg, clock, requests, mu, admitted>>
    /\ UNCHANGED notRL

\* the admitted timestamps that can share a window (t - W, t] with an
\* admission made at time t >= now; the older ones are forgotten
StillInReach(log, now) == SelectSeq(log, LAMBDA ts : ts + cfg.window > now)

\* the earliest time an admission can still carry: the clock after the tick,
\* or the time a goroutine inside Allow has already read
Horizon ==
    LET held == {rl[g].now : g \in {x \in Goroutines : rl[x].pc \in {"check", "append"}}}
    IN  IF held = {} THEN clock + 1
        ELSE CHOOSE m \in held : \A x \in held : m <= x

\* time passes
Tick ==
    /\ clock < MaxTime
    /\ clock' = clock + 1
    /\ admitted' = [u \in Requesters |-> StillInReach(admitted[u], Horizon)]
    /\ UNCHANGED <<cfg, requests, mu, rl, race>>
    /\ UNCHANGED notRL

(***************************************************************************)
(* One caller of the store, one whole call after the other.                *)
(***************************************************************************)
\* the longest name that survives the cap, and a name one character longer
CapName == [i \in 1..maxInputLength |-> "a"]
LongName == [i \in 1..(maxInputLength + 1) |-> "a"]

RoleInputs == {<<"a">>, <<" ", "A">>, CapName, LongName, <<" ">>}
UserInputs == {<<"a">>, <<"@", "A">>, <<"b">>, <<"@">>}

\* last: [op, role, user] the call and its arguments as passed, [err] the
\*       error returned, [users] the sequence returned (reads only),
\*       [amid] for a query made beside a writer: where the open transaction
\*       stood when the query ran
\*       [respelled] the call before it was the same operation on the same
\*       normalized names, spelled differently
\* scn: [on] the script has started, [r, a, b, c] the role and the three
\*      users it names, [step] the number of its calls made, [errs] the
\*      errors they returned, [reads] what its GetUsersInRole calls returned
NoScenario ==
    [on |-> FALSE, r |-> <<>>, a |-> <<>>, b |-> <<>>, c |-> <<>>, step |-> 0,
     errs |-> <<>>, reads |-> <<>>]

NoLast == [op |-> "none", role |-> <<>>, user |-> <<>>, err |-> "nil", users |-> <<>>,
           respelled |-> FALSE, amid |-> "none"]

SeqQuiet == last = NoLast

SameNames(op, rawRole, rawUser) ==
    /\ last.op = op
    /\ SanitizeRoleName(last.role) = SanitizeRoleName(rawRole)
    /\ SanitizeUsername(last.user) = SanitizeUsername(rawUser)

Called(op, rawRole, rawUser, err, users) ==
    [op |-> op, role |-> rawRole, user |-> rawUser, err |-> err, users |-> users,
     respelled |-> SameNames(op, rawRole, rawUser)
                   /\ (last.role # rawRole \/ last.user # rawUser),
     amid |-> "none"]

\* AUTOINCREMENT ids stay within the ids of the model
WithinIds(d) == d.seqRoles <= MaxRoleId /\ d.seqUsers <= MaxUserId

SeqCreateRole(rawRole) ==
    LET r == CreateRole(db, rawRole) IN
    /\ WithinIds(r.db)
    /\ db' = r.db
    /\ last' = Called("CreateRole", rawRole, <<>>, r.err, <<>>)
    /\ UNCHANGED scn
    /\ UNCHANGED notSeq

SeqRemoveRole(rawRole) ==
    LET r == RemoveRole(db, rawRole) IN
    /\ db' = r.db
    /\ last' = Called("RemoveRole", rawRole, <<>>, r.err, <<>>)
    /\ UNCHANGED scn
    /\ UNCHANGED notSeq

SeqAddUserToRole(rawRole, rawUser) ==
    LET r == AddUserToRole(db, rawRole, rawUser) IN
    /\ WithinIds(r.db)
    /\ db' = r.db
    /\ last' = Called("AddUserToRole", rawRole, rawUser, r.err, <<>>)
    /\ UNCHANGED scn
    /\ UNCHANGED notSeq

SeqRemoveUserFromRole(rawRole, rawUser) ==
    LET r == RemoveUserFromRole(db, rawRole, rawUser) IN
    /\ db' = r.db
    /\ last' = Called("RemoveUserFromRole", rawRole, rawUser, r.err, <<>>)
    /\ UNCHANGED scn
    /\ UNCHANGED notSeq

SeqGetUsersInRole(rawRole) ==
    LET r == GetUsersInRole(db, rawRole) IN
    /\ last' = Called("GetUsersInRole", rawRole, <<>>, r.err, r.users)
    /\ UNCHANGED db
    /\ UNCHANGED scn
    /\ UNCHANGED notSeq

SeqGetAllRoles ==
    LET r == GetAllRoles(db) IN
    /\ last' = Called("GetAllRoles", <<>>, <<>>, r.err, r.roles)
    /\ UNCHANGED db
    /\ UNCHANGED scn
    /\ UNCHANGED notSeq

(***************************************************************************)
(* A reader beside the writers. s.db.Query runs on a connection of its own *)
(* (the open transaction keeps the writer's), and the database is opened   *)
(* with _journal_mode=WAL: a query reads the last committed snapshot.      *)
(***************************************************************************)
\* a connection that reads the pages the open transaction has written
ReadUncommitted(committed, working) == working

\* the snapshot a query on another connection reads
Visible(committed, working) == committed

\* the database a query sees when it runs now
ReaderView == Visible(db, IF lock = "none" THEN db ELSE tx[lock])

\* where the open transaction stands, "none" without one
OpenAt == IF lock = "none" THEN "none" ELSE pc[lock]

ReadRoleInputs == {<<"a">>, <<"A">>}

\* GetUsersInRole as one query, made while the writers are where they are
ReadUsersInRole(rawRole) ==
    /\ \E r \in {GetUsersInRole(ReaderView, rawRole)} :
          last' = [Called("GetUsersInRole", rawRole, <<>>, r.err, r.users) EXCEPT !.amid = OpenAt]
    /\ UNCHANGED <<dirVars, rlVars, ev, ctx, scn>>

\* GetAllRoles as one query
ReadAllRoles ==
    /\ \E r \in {GetAllRoles(ReaderView)} :
          last' = [Called("GetAllRoles", <<>>, <<>>, r.err, r.roles) EXCEPT !.amid = OpenAt]
    /\ UNCHANGED <<dirVars, rlVars, ev, ctx, scn>>

(***************************************************************************)
(* One caller running a fixed script of calls on whatever database earlier *)
(* calls left: CreateRole(r), AddUserToRole(r, a), AddUserToRole(r, b),    *)
(* GetUsersInRole(r), RemoveUserFromRole(r, a), GetUsersInRole(r),         *)
(* RemoveRole(r), AddUserToRole(r, c).                                     *)
(***************************************************************************)
ScriptRoles == {<<"a">>, <<"B">>}
ScriptUsers == {<<"a">>, <<"@", "B">>, <<"c">>}

ScriptLength == 8

\* the k-th call of the script on the database d: the database after it, the
\* error and, for a read, the sequence returned
ScriptCall(d, k, s) ==
    CASE k = 1 -> [db |-> CreateRole(d, s.r).db, err |-> CreateRole(d, s.r).err, users |-> <<>>]
      [] k = 2 -> [db |-> AddUserToRole(d, s.r, s.a).db, err |-> AddUserToRole(d, s.r, s.a).err,
                   users |-> <<>>]
      [] k = 3 -> [db |-> AddUserToRole(d, s.r, s.b).db, err |-> AddUserToRole(d, s.r, s.b).err,
                   users |-> <<>>]
      [] k \in {4, 6} -> [db |-> d, err |-> GetUsersInRole(d, s.r).err,
                          users |-> GetUsersInRole(d, s.r).users]
      [] k = 5 -> [db |-> RemoveUserFromRole(d, s.r, s.a).db,
                   err |-> RemoveUserFromRole(d, s.r, s.a).err, users |-> <<>>]
      [] k = 7 -> [db |-> RemoveRole(d, s.r).db, err |-> RemoveRole(d, s.r).err, users |-> <<>>]
      [] k = 8 -> [db |-> AddUserToRole(d, s.r, s.c).db, err |-> AddUserToRole(d, s.r, s.c).err,
                   users |-> <<>>]

\* the script starts on a database without the role r, with users a < b < c
ScriptStart(r, a, b, c) ==
    /\ ~scn.on
    /\ ~RoleExists(db, SanitizeRoleName(r))
    /\ StrLess(SanitizeUsername(a), SanitizeUsername(b))
    /\ StrLess(SanitizeUsername(b), SanitizeUsername(c))
    /\ scn' = [NoScenario EXCEPT !.on = TRUE, !.r = r, !.a = a, !.b = b, !.c = c]
    /\ UNCHANGED <<db, last>>
    /\ UNCHANGED notSeq

\* the next call of the script
ScriptStep ==
    LET k == scn.step + 1
        got == ScriptCall(db, k, scn)
    IN  /\ scn.on
        /\ k <= ScriptLength
        /\ WithinIds(got.db)
        /\ db' = got.db
        /\ scn' = [scn EXCEPT !.step = k,
                               !.errs = Append(@, got.err),
                               !.reads = IF k \in {4, 6} THEN Append(@, got.users) ELSE @]
        /\ UNCHANGED last
        /\ UNCHANGED notSeq

(***************************************************************************)
(* One caller whose calls are followed from the removal of a role with     *)
(* members to the re-creation of a role of that name. scn is used as       *)
(* bookkeeping: [r] the normalized name of the role removed, [step] 1 once *)
(* it is removed, 2 once a role of the name is created again, 3 once a     *)
(* member has been added to it, [reads] what GetUsersInRole returned for   *)
(* the name at step 2.                                                     *)
(***************************************************************************)
RecreateRoles == {<<"a">>, <<"A">>, <<"b">>}
RecreateUsers == {<<"a">>, <<"b">>}

Followed(op, rawRole, got) ==
    LET role == SanitizeRoleName(rawRole) IN
    IF op = "RemoveRole" /\ got.err = "nil"
    THEN IF GetUsersInRole(db, rawRole).users # <<>>
         THEN [NoScenario EXCEPT !.on = TRUE, !.r = role, !.step = 1]
         ELSE IF scn.on /\ scn.r = role THEN NoScenario ELSE scn
    ELSE IF ~scn.on \/ scn.r # role \/ got.err # "nil" THEN scn
    ELSE IF op = "CreateRole" /\ scn.step = 1 THEN [scn EXCEPT !.step = 2]
    ELSE IF op = "AddUserToRole" /\ scn.step = 2 THEN [scn EXCEPT !.step = 3]
    ELSE IF op = "GetUsersInRole" /\ scn.step = 2 /\ Len(scn.reads) < 1
    THEN [scn EXCEPT !.reads = Append(@, got.users)]
    ELSE scn

FollowedCall(op, rawRole, rawUser, got) ==
    /\ WithinIds(got.db)
    /\ db' = got.db
    /\ last' = Called(op, rawRole, rawUser, got.err, got.users)
    /\ scn' = Followed(op, rawRole, got)
    /\ UNCHANGED notSeq

RcCreateRole(r) ==
    \E x \in {CreateRole(db, r)} :
        FollowedCall("CreateRole", r, <<>>, [db |-> x.db, err |-> x.err, users |-> <<>>])

RcRemoveRole(r) ==
    \E x \in {RemoveRole(db, r)} :
        FollowedCall("RemoveRole", r, <<>>, [db |-> x.db, err |-> x.err, users |-> <<>>])

RcAddUserToRole(r, u) ==
    \E x \in {AddUserToRole(db, r, u)} :
        FollowedCall("AddUserToRole", r, u, [db |-> x.db, err |-> x.err, users |-> <<>>])

RcRemoveUserFromRole(r, u) ==
    \E x \in {RemoveUserFromRole(db, r, u)} :
        FollowedCall("RemoveUserFromRole", r, u, [db |-> x.db, err |-> x.err, users |-> <<>>])

RcGetUsersInRole(r) ==
    \E x \in {GetUsersInRole(db, r)} :
        FollowedCall("GetUsersInRole", r, <<>>, [db |-> db, err |-> x.err, users |-> x.users])

(***************************************************************************)
(* The bot: Service.Start takes one update after the other from the        *)
(* channel and hands it to handleUpdate.                                   *)
(***************************************************************************)
\* an update: [message] update.Message != nil, [chat] Message.Chat.ID,
\* [from] Message.From.ID, [username] Message.From.UserName, [command]
\* Message.Command() or "" when the text is not a command, [args]
\* Message.CommandArguments(), [text] Message.Text of a non-command message
NoMessage ==
    [message |-> FALSE, chat |-> 0, from |-> 0, username |-> "", command |-> "",
     args |-> <<>>, text |-> <<>>]

Command(name, args) ==
    [message |-> TRUE, chat |-> 0, from |-> 0, username |-> "", command |-> name,
     args |-> args, text |-> <<>>]

Text(text) ==
    [message |-> TRUE, chat |-> 0, from |-> 0, username |-> "", command |-> "",
     args |-> <<>>, text |-> text]

\* an argument string that alone fills the message limit
LongArgs == [i \in 1..telegramMessageLimit |-> "a"]

Messages ==
    {Command("ping", <<>>), Command("ping", <<"a">>),
     Command("createrole", <<>>), Command("createrole", <<"a">>),
     Command("createrole", <<" ", "A">>), Command("createrole", LongArgs),
     Command("removerole", <<>>), Command("removerole", <<"a">>),
     Command("addtorole", <<"a">>), Command("addtorole", <<"a", " ", "a">>),
     Command("addtorole", <<"a", " ", "@", "b">>), Command("addtorole", <<"a", " ", " ", "a">>),
     Command("removefromrole", <<"a">>), Command("removefromrole", <<"a", " ", "a">>),
     Command("listroles", <<>>), Command("listmembers", <<>>), Command("listmembers", <<"a">>),
     Command("help", <<>>), Command("status", <<>>), Command("start", <<>>),
     Command("CreateRole", <<"a">>),
     Command("ping", <<" ">>), Command("addtorole", <<" ", "a">>),
     Command("addtorole", <<"a", "\t", "a">>),
     Command("removefromrole", <<"a", " ", " ", "a">>), Text(<<"@">>),
     Text(<<"@", "a">>), Text(<<"a">>), Text(<<>>)}

Senders ==
    {[chat |-> 1, from |-> 1, username |-> "admin"],
     [chat |-> 2, from |-> 1, username |-> "admin"],
     [chat |-> 1, from |-> 2, username |-> "bob"],
     [chat |-> 1, from |-> 2, username |-> "Admin"]}

Updates ==
    {NoMessage} \cup
    {[m EXCEPT !.chat = s.chat, !.from = s.from, !.username = s.username] :
        m \in Messages, s \in Senders}

\* Config as Load fills it: the admin's username, the allowed chats (none
\* configured: every chat allowed), the rate limit; NewSecurity fixes the
\* window to time.Minute, one tick of the clock
BotConfigs ==
    [limit : {1}, window : {1}, AdminUsername : {"admin"}, AllowedChats : {{}, {1}}]

\* strings.Split(s, ","): the pieces between the commas, empty ones included
RECURSIVE SplitComma(_)
SplitComma(s) ==
    IF \A i \in 1..Len(s) : s[i] # "," THEN <<s>>
    ELSE LET k == CHOOSE i \in 1..Len(s) : s[i] = "," /\ \A j \in 1..(i - 1) : s[j] # ","
         IN  <<SubSeq(s, 1, k - 1)>> \o SplitComma(SubSeq(s, k + 1, Len(s)))

IsDigit(c) == c \in {"0", "1", "2", "3", "4", "5", "6", "7", "8", "9"}

DigitValue(c) ==
    CASE c = "0" -> 0 [] c = "1" -> 1 [] c = "2" -> 2 [] c = "3" -> 3 [] c = "4" -> 4
      [] c = "5" -> 5 [] c = "6" -> 6 [] c = "7" -> 7 [] c = "8" -> 8 [] c = "9" -> 9

RECURSIVE DecimalValue(_)
DecimalValue(s) ==
    IF s = <<>> THEN 0
    ELSE DecimalValue(SubSeq(s, 1, Len(s) - 1)) * 10 + DigitValue(s[Len(s)])

\* strconv.ParseInt(s, 10, 64): an optional sign and at least one digit
ParseInt(s) ==
    LET signed == s # <<>> /\ Head(s) \in {"+", "-"}
        digits == IF signed THEN Tail(s) ELSE s
    IN  IF digits = <<>> \/ \E i \in 1..Len(digits) : ~IsDigit(digits[i])
        THEN [ok |-> FALSE, value |-> 0]
        ELSE [ok |-> TRUE,
              value |-> IF signed /\ Head(s) = "-" THEN 0 - DecimalValue(digits)
                        ELSE DecimalValue(digits)]

\* Load: the entries of ALLOWED_CHATS that parse; the others are skipped
ParseAllowedChats(env) ==
    IF env = <<>> THEN {}
    ELSE LET entries == SplitComma(env)
         IN  {ParseInt(TrimSpace(entries[i])).value :
                 i \in {j \in 1..Len(entries) : ParseInt(TrimSpace(entries[j])).ok}}

\* values of the environment variable ALLOWED_CHATS: unset, one id, two ids
\* with blanks, an id beside an entry that is no number, and values none of
\* whose entries is a number
AllowedChatsValues ==
    {<<>>, <<"1">>, <<"1", ",", " ", "2">>, <<"2", ",", "x">>, <<"x">>, <<"1", ".", "0">>, <<",">>}

\* Config as Load returns it for a value of ALLOWED_CHATS; [ALLOWED_CHATS]
\* keeps the value it was loaded from
Load(env) ==
    [limit |-> 1, window |-> 1, AdminUsername |-> "admin",
     AllowedChats |-> ParseAllowedChats(env), ALLOWED_CHATS |-> env]

\* RateLimiter.Allow as one call under the mutex
Allow(reqs, u, now, c) ==
    LET pruned == IF u \in DOMAIN reqs
                  THEN [reqs EXCEPT ![u] = Prune(reqs[u], now - c.window)]
                  ELSE reqs
    IN  IF AtLimit(Len(Lookup(pruned, u)), c.limit)
        THEN [requests |-> pruned, ok |-> FALSE]
        ELSE [requests |-> [x \in DOMAIN pruned \cup {u} |->
                               IF x = u THEN Append(Lookup(pruned, u), now) ELSE pruned[x]],
              ok |-> TRUE]

\* an allow-list check that lets every chat through
AnyChatAllowed(c, chatID) == TRUE

isChatAllowed(c, chatID) == chatID \in c.AllowedChats

\* len(command word)
WordLen(name) ==
    CASE name = "ping" -> 4 [] name = "help" -> 4 [] name = "start" -> 5
      [] name = "status" -> 6 [] name = "listroles" -> 9 [] name = "addtorole" -> 9
      [] name = "createrole" -> 10 [] name = "CreateRole" -> 10 [] name = "removerole" -> 10
      [] name = "listmembers" -> 11 [] name = "removefromrole" -> 14 [] OTHER -> 0

\* len(strings.TrimSpace(update.Message.Text)); a command's text is
\* "/" + command + " " + arguments
TrimmedTextLen(u) ==
    IF u.command = "" THEN ByteLen(TrimSpace(u.text))
    ELSE IF TrimRight(u.args) = <<>> THEN 1 + WordLen(u.command)
    ELSE 1 + WordLen(u.command) + 1 + ByteLen(TrimRight(u.args))

\* the number of characters of update.Message.Text as it arrived
TextChars(u) ==
    IF u.command = "" THEN Len(u.text)
    ELSE IF u.args = <<>> THEN 1 + WordLen(u.command)
    ELSE 1 + WordLen(u.command) + 1 + Len(u.args)

\* a validation that looks at the length of the text before anything else
ValidateMessageLengthFirst(reqs, now, c, u) ==
    LET a == Allow(reqs, u.from, now, c) IN
    IF ~u.message THEN [requests |-> reqs, err |-> "nil"]
    ELSE IF TrimmedTextLen(u) > telegramMessageLimit
    THEN [requests |-> reqs, err |-> "ErrInvalidInput"]
    ELSE IF c.AllowedChats # {} /\ ~isChatAllowed(c, u.chat)
    THEN [requests |-> reqs, err |-> "ChatNotAllowed"]
    ELSE IF ~a.ok THEN [requests |-> a.requests, err |-> "ErrRateLimited"]
    ELSE [requests |-> a.requests, err |-> "nil"]

ValidateMessage(reqs, now, c, u) ==
    LET a == Allow(reqs, u.from, now, c) IN
    IF ~u.message THEN [requests |-> reqs, err |-> "nil"]
    ELSE IF c.AllowedChats # {} /\ ~isChatAllowed(c, u.chat)
    THEN [requests |-> reqs, err |-> "ChatNotAllowed"]
    ELSE IF ~a.ok THEN [requests |-> a.requests, err |-> "ErrRateLimited"]
    ELSE IF TrimmedTextLen(u) > telegramMessageLimit
    THEN [requests |-> a.requests, err |-> "ErrInvalidInput"]
    ELSE [requests |-> a.requests, err |-> "nil"]

AdminCommands == {"createrole", "removerole", "addtorole", "removefromrole"}

\* an admin check that lets every sender through
IsAdminAnyone(c, username) == TRUE

IsAdmin(c, username) == username = c.AdminUsername

\* strings.Split(s, " ")
RECURSIVE Split(_)
Split(s) ==
    IF \A i \in 1..Len(s) : s[i] # " " THEN <<s>>
    ELSE LET i == CHOOSE k \in 1..Len(s) : s[k] = " " /\ \A j \in 1..(k - 1) : s[j] # " "
         IN  <<SubSeq(s, 1, i - 1)>> \o Split(SubSeq(s, i + 1, Len(s)))

\* A handler's outcome: [db] the database after it, [called] the store method
\* it called and [with] the arguments it passed, [derr] the error the store
\* returned, [reply] the text it renders: [prefix] the format of
\* models.Prefix* ("" for a fixed message), [body] the fixed message or the
\* error inserted, [users] the names listed.
Reply(prefix, body, users) == [prefix |-> prefix, body |-> body, users |-> users]

NoReply == Reply("", "", <<>>)

Outcome(d, called, with, derr, reply) ==
    [db |-> d, called |-> called, with |-> with, derr |-> derr, reply |-> reply]

handlePing(d, args) ==
    LET roleName == ToLower(TrimSpace(args))
        r == GetUsersInRole(d, roleName)
    IN  IF args = <<>> THEN Outcome(d, "none", <<>>, "nil", Reply("", "MsgPong", <<>>))
        ELSE IF r.err # "nil"
        THEN Outcome(d, "GetUsersInRole", <<roleName>>, r.err, Reply("PrefixError", r.err, <<>>))
        ELSE IF Len(r.users) = 0
        THEN Outcome(d, "GetUsersInRole", <<roleName>>, "nil", Reply("", "No users found in role", <<>>))
        ELSE Outcome(d, "GetUsersInRole", <<roleName>>, "nil", Reply("PrefixPing", "", r.users))

handleCreateRole(d, args) ==
    LET r == CreateRole(d, args) IN
    IF args = <<>> THEN Outcome(d, "none", <<>>, "nil", Reply("", "MsgProvideRoleName", <<>>))
    ELSE IF r.err # "nil"
    THEN Outcome(r.db, "CreateRole", <<args>>, r.err, Reply("PrefixError", r.err, <<>>))
    ELSE Outcome(r.db, "CreateRole", <<args>>, "nil", Reply("PrefixSuccess", "created", <<>>))

handleRemoveRole(d, args) ==
    LET r == RemoveRole(d, args) IN
    IF args = <<>> THEN Outcome(d, "none", <<>>, "nil", Reply("", "MsgProvideRoleName", <<>>))
    ELSE IF r.err # "nil"
    THEN Outcome(r.db, "RemoveRole", <<args>>, r.err, Reply("PrefixError", r.err, <<>>))
    ELSE Outcome(r.db, "RemoveRole", <<args>>, "nil", Reply("PrefixSuccess", "removed", <<>>))

handleAddToRole(d, args) ==
    LET parts == Split(args)
        r == AddUserToRole(d, parts[1], parts[2])
    IN  IF Len(parts) # 2
        THEN Outcome(d, "none", <<>>, "nil", Reply("", "MsgUsageAddToRole", <<>>))
        ELSE IF r.err # "nil"
        THEN Outcome(r.db, "AddUserToRole", parts, r.err, Reply("PrefixError", r.err, <<>>))
        ELSE Outcome(r.db, "AddUserToRole", parts, "nil", Reply("PrefixSuccess", "added", <<>>))

handleRemoveFromRole(d, args) ==
    LET parts == Split(args)
        r == RemoveUserFromRole(d, parts[1], parts[2])
    IN  IF Len(parts) # 2
        THEN Outcome(d, "none", <<>>, "nil", Reply("", "MsgUsageRemoveFromRole", <<>>))
        ELSE IF r.err # "nil"
        THEN Outcome(r.db, "RemoveUserFromRole", parts, r.err, Reply("PrefixError", r.err, <<>>))
        ELSE Outcome(r.db, "RemoveUserFromRole", parts, "nil", Reply("PrefixSuccess", "removed", <<>>))

handleListRoles(d) ==
    LET r == GetAllRoles(d) IN
    IF r.err # "nil"
    THEN Outcome(d, "GetAllRoles", <<>>, r.err, Reply("PrefixError", r.err, <<>>))
    ELSE IF Len(r.roles) = 0
    THEN Outcome(d, "GetAllRoles", <<>>, "nil", Reply("", "MsgNoRoles", <<>>))
    ELSE Outcome(d, "GetAllRoles", <<>>, "nil", Reply("PrefixInfo", "Roles", r.roles))

handleListMembers(d, args) ==
    LET roleName == ToLower(TrimSpace(args))
        r == GetUsersInRole(d, roleName)
    IN  IF args = <<>> THEN Outcome(d, "none", <<>>, "nil", Reply("", "MsgProvideRoleName", <<>>))
        ELSE IF r.err # "nil"
        THEN Outcome(d, "GetUsersInRole", <<roleName>>, r.err, Reply("PrefixError", r.err, <<>>))
        ELSE IF Len(r.users) = 0
        THEN Outcome(d, "GetUsersInRole", <<roleName>>, "nil", Reply("", "No users found in role", <<>>))
        ELSE Outcome(d, "GetUsersInRole", <<roleName>>, "nil", Reply("", "Users in role", r.users))

\* Commands.Handle: the handler's outcome and the one bot.Send of its reply
Handle(d, c, u) ==
    LET h == IF u.command \in AdminCommands /\ ~IsAdmin(c, u.username)
             THEN Outcome(d, "none", <<>>, "nil", Reply("", "MsgUnauthorized", <<>>))
             ELSE CASE u.command = "ping" -> handlePing(d, u.args)
                    [] u.command = "createrole" -> handleCreateRole(d, u.args)
                    [] u.command = "removerole" -> handleRemoveRole(d, u.args)
                    [] u.command = "addtorole" -> handleAddToRole(d, u.args)
                    [] u.command = "removefromrole" -> handleRemoveFromRole(d, u.args)
                    [] u.command = "listroles" -> handleListRoles(d)
                    [] u.command = "listmembers" -> handleListMembers(d, u.args)
                    [] u.command = "help" ->
                          Outcome(d, "none", <<>>, "nil", Reply("", "HelpMessage", <<>>))
                    [] u.command = "status" ->
                          Outcome(d, "none", <<>>, "nil", Reply("", "MsgBotHealthy", <<>>))
                    [] OTHER ->
                          Outcome(d, "none", <<>>, "nil", Reply("", "MsgUnknownCommand", <<>>))
    IN  [out |-> h, sends |-> 1]

\* Service.handleRoleMention: the members are pinged when there are any; an
\* error of the store is returned to the loop, nothing is sent
\* a mention handler that sends its ping line even when it lists nobody
handleRoleMentionAlwaysSends(d, u) ==
    LET role == ToLower(TrimSpace(TrimPrefixAt(u.text)))
        r == GetUsersInRole(d, role)
    IN  [out |-> Outcome(d, "GetUsersInRole", <<role>>, r.err, Reply("Pinging role", "", r.users)),
         sends |-> 1]

handleRoleMention(d, u) ==
    LET role == ToLower(TrimSpace(TrimPrefixAt(u.text)))
        r == GetUsersInRole(d, role)
    IN  IF r.err # "nil"
        THEN [out |-> Outcome(d, "GetUsersInRole", <<role>>, r.err, NoReply), sends |-> 0]
        ELSE IF Len(r.users) > 0
        THEN [out |-> Outcome(d, "GetUsersInRole", <<role>>, "nil", Reply("Pinging role", "", r.users)),
              sends |-> 1]
        ELSE [out |-> Outcome(d, "GetUsersInRole", <<role>>, "nil", NoReply), sends |-> 0]

\* handleUpdate past the validation: commands, mentions, other messages
Dispatch(d, c, u) ==
    IF ~u.message THEN [out |-> Outcome(d, "none", <<>>, "nil", NoReply), sends |-> 0]
    ELSE IF u.command # "" THEN Handle(d, c, u)
    ELSE IF u.text # <<>> /\ Head(u.text) = "@" THEN handleRoleMention(d, u)
    ELSE [out |-> Outcome(d, "none", <<>>, "nil", NoReply), sends |-> 0]

\* a handleUpdate that goes on to dispatch an update ValidateMessage rejected
handleUpdateDespiteRejection(d, reqs, now, c, u) ==
    [requests |-> ValidateMessage(reqs, now, c, u).requests,
     err |-> ValidateMessage(reqs, now, c, u).err,
     out |-> Dispatch(d, c, u).out, sends |-> Dispatch(d, c, u).sends]

\* Service.handleUpdate
handleUpdate(d, reqs, now, c, u) ==
    LET v == ValidateMessage(reqs, now, c, u)
        h == Dispatch(d, c, u)
    IN  IF v.err # "nil"
        THEN [requests |-> v.requests, err |-> v.err,
              out |-> Outcome(d, "none", <<>>, "nil", NoReply), sends |-> 0]
        ELSE [requests |-> v.requests, err |-> "nil", out |-> h.out, sends |-> h.sends]

\* ev: [at] where the loop of Start stands, [update] the update it took,
\*     [err] what ValidateMessage returned for it, [out] the outcome of its
\*     handler, [sends] the number of bot.Send calls made for it,
\*     [changed] handling it changed the database, [failed] its bot.Send
\*     returned an error, [logged] the error handleUpdate returned to Start,
\*     [after] the update before it ended in an error, [cut] the context was
\*     cancelled while its handler was running, [start] what Start returned
NoEvent ==
    [at |-> "select", update |-> NoMessage, err |-> "nil",
     out |-> Outcome(EmptyDB, "none", <<>>, "nil", NoReply), sends |-> 0,
     changed |-> FALSE, failed |-> FALSE, logged |-> "nil", after |-> FALSE,
     cut |-> FALSE, start |-> "running"]

\* the error handleUpdate returns to Start: that of ValidateMessage, else that
\* of bot.Send, else the store error handleRoleMention returns
Returned(h, sendFails) ==
    IF h.err # "nil" THEN h.err
    ELSE IF sendFails THEN "SendError"
    ELSE IF h.sends = 0 THEN h.out.derr
    ELSE "nil"

\* a loop that returns the error of handleUpdate instead of logging it
StopOnError(returned) == IF returned # "nil" THEN "returned" ELSE "handled"

\* Start logs the error handleUpdate returned and goes on with its loop
AfterHandle(returned) == "handled"

\* a context whose Done channel never becomes readable
NeverDone(c) == FALSE

\* <-ctx.Done() can proceed
Done(c) == c = "cancelled"

\* case update := <-updates
Receive(u) ==
    /\ ev.at = "select"
    /\ WithinIds(Dispatch(db, cfg, u).out.db)
    /\ ev' = [NoEvent EXCEPT !.at = "handle", !.update = u, !.after = ev.after]
    /\ UNCHANGED <<db, cfg, clock, requests, ctx>>
    /\ UNCHANGED notBot

\* s.handleUpdate(update)
HandleUpdate ==
    /\ ev.at = "handle"
    /\ \E out \in {handleUpdate(db, requests, clock, cfg, ev.update)}, sendFails \in BOOLEAN :
          /\ WithinIds(out.out.db)
          /\ sendFails => out.sends = 1
          /\ db' = out.out.db
          /\ requests' = out.requests
          /\ \E returned \in {Returned(out, sendFails)} :
                ev' = [ev EXCEPT !.at = AfterHandle(returned),
                                 !.err = out.err,
                                 !.out = [out.out EXCEPT !.db = EmptyDB],
                                 !.sends = out.sends, !.changed = out.out.db # db,
                                 !.failed = sendFails,
                                 !.logged = returned,
                                 !.start = IF AfterHandle(returned) = "returned"
                                           THEN returned ELSE "running"]
    /\ UNCHANGED <<cfg, clock, ctx>>
    /\ UNCHANGED notBot

\* the update just handled ended in an error: ValidateMessage rejected it, a
\* store call failed, or bot.Send failed
HandlingError(e) == e.err # "nil" \/ e.out.derr # "nil" \/ e.failed

\* the loop of Start comes back to its select
NextUpdate ==
    /\ ev.at = "handled"
    /\ ev' = [NoEvent EXCEPT !.after = HandlingError(ev)]
    /\ UNCHANGED <<db, cfg, clock, requests, ctx>>
    /\ UNCHANGED notBot

\* main's signal goroutine calls cancel()
Cancel ==
    /\ ctx = "live"
    /\ ctx' = "cancelled"
    /\ ev' = [ev EXCEPT !.cut = (ev.at = "handle")]
    /\ UNCHANGED <<db, cfg, clock, requests>>
    /\ UNCHANGED notBot

\* case <-ctx.Done(): return nil
StartReturn ==
    /\ ev.at = "select"
    /\ Done(ctx)
    /\ ev' = [ev EXCEPT !.at = "returned", !.start = "nil"]
    /\ UNCHANGED <<db, cfg, clock, requests, ctx>>
    /\ UNCHANGED notBot

(***************************************************************************)
(* Specifications                                                          *)
(***************************************************************************)
Init ==
    /\ DirInit
    /\ RLQuiet
    /\ SeqQuiet
    /\ ev = NoEvent
    /\ ctx = "live"
    /\ scn = NoScenario
    /\ cfg = [limit |-> 1, window |-> 1]

Next ==
    \/ \E p \in Procs, raw \in ConcRoleInputs : CreateRoleCall(p, raw)
    \/ \E p \in Procs : CreateRoleExec(p)
    \/ \E p \in Procs, raw \in ConcRoleInputs : RemoveRoleCall(p, raw)
    \/ \E p \in Procs : RemoveRoleExec(p)
    \/ \E p \in Procs, r \in ConcRoleInputs, u \in ConcUserInputs : AddUserToRoleCall(p, r, u)
    \/ \E p \in Procs : AddUserToRoleUpsert(p)
    \/ \E p \in Procs : AddUserToRoleCheck(p)
    \/ \E p \in Procs : AddUserToRoleInsert(p)
    \/ \E p \in Procs : AddUserToRoleCommit(p)
    \/ \E p \in Procs, r \in ConcRoleInputs, u \in ConcUserInputs : RemoveUserFromRoleCall(p, r, u)
    \/ \E p \in Procs : RemoveUserFromRoleExec(p)
    \/ \E p \in Procs : Return(p)

Spec == Init /\ [][Next]_vars

InitRL ==
    /\ DirInit
    /\ RLQuiet
    /\ SeqQuiet
    /\ ev = NoEvent
    /\ ctx = "live"
    /\ scn = NoScenario
    /\ cfg \in Configs

NextRL ==
    \/ \E g \in Goroutines, u \in Requesters : AllowCall(g, u)
    \/ \E g \in Goroutines : AllowLock(g)
    \/ \E g \in Goroutines : AllowPrune(g)
    \/ \E g \in Goroutines : AllowCheck(g)
    \/ \E g \in Goroutines : AllowAppend(g)
    \/ \E g \in Goroutines : AllowUnlock(g)
    \/ \E g \in Goroutines : AllowReturn(g)
    \/ Tick

SpecRL == InitRL /\ [][NextRL]_vars

InitBot ==
    /\ DirInit
    /\ RLQuiet
    /\ SeqQuiet
    /\ ev = NoEvent
    /\ ctx = "live"
    /\ scn = NoScenario
    /\ cfg \in BotConfigs

NextBot ==
    \/ \E u \in Updates : Receive(u)
    \/ HandleUpdate
    \/ NextUpdate
    \/ Tick

SpecBot == InitBot /\ [][NextBot]_vars

\* Start from its first select to its return, main's cancel() included, on
\* updates of every fate: handled well, rejected by ValidateMessage, failing
\* in the store, changing the database
LoopUpdates ==
    {[m EXCEPT !.username = "admin", !.chat = 1, !.from = 1] :
        m \in {Command("createrole", <<"a">>), Command("addtorole", <<"a", " ", "a">>),
               Command("createrole", LongArgs), Text(<<"@", "a">>), Text(<<"@">>)}}
    \cup {[Command("createrole", <<"a">>) EXCEPT !.username = "admin", !.chat = 2, !.from = 1]}

NextLoop ==
    \/ \E u \in LoopUpdates : Receive(u)
    \/ HandleUpdate
    \/ NextUpdate
    \/ Cancel
    \/ StartReturn
    \/ Tick

SpecLoop == InitBot /\ [][NextLoop]_vars

\* the same loop on updates about roles alone: created and removed, found
\* existing or missing by the store, rejected for chat, rate and length
RoleUpdates ==
    {[m EXCEPT !.username = "admin", !.chat = 1, !.from = 1] :
        m \in {Command("createrole", <<"a">>), Command("removerole", <<"a">>),
               Command("createrole", LongArgs), Text(<<"@">>)}}
    \cup {[Command("createrole", <<"a">>) EXCEPT !.username = "admin", !.chat = 2, !.from = 1]}

NextRoleLoop ==
    \/ \E u \in RoleUpdates : Receive(u)
    \/ HandleUpdate
    \/ NextUpdate
    \/ Cancel
    \/ StartReturn
    \/ Tick

\* the handler and the loop keep running, and a select that finds
\* <-ctx.Done() ready again and again takes it in the end (Go picks among
\* the ready cases of a select at random)
FairSpecRoleLoop ==
    /\ InitBot /\ [][NextRoleLoop]_vars
    /\ WF_vars(HandleUpdate) /\ WF_vars(NextUpdate) /\ SF_vars(StartReturn)

\* texts around the length limit: at the limit, one character above it, above
\* it by a trailing blank only, within it in characters but not in bytes
AtLimitText == [i \in 1..telegramMessageLimit |-> "a"]
OverLimitText == [i \in 1..(telegramMessageLimit + 1) |-> "a"]
PaddedText == AtLimitText \o <<" ">>
AccentedText == [i \in 1..(telegramMessageLimit \div 2 + 1) |-> TwoByteChar]

GateMessages ==
    {Text(AtLimitText), Text(OverLimitText), Text(PaddedText), Text(AccentedText),
     Text(<<"a">>), Command("createrole", LongArgs), Command("listroles", <<>>)}

GateSenders ==
    {[chat |-> 1, from |-> 1, username |-> "admin"],
     [chat |-> 2, from |-> 1, username |-> "admin"],
     [chat |-> 1, from |-> 2, username |-> "bob"]}

GateUpdates ==
    {[m EXCEPT !.chat = s.chat, !.from = s.from, !.username = s.username] :
        m \in GateMessages, s \in GateSenders}

\* the admission gate in front of the handlers, on updates around its limits
NextGate ==
    \/ \E u \in GateUpdates : Receive(u)
    \/ HandleUpdate
    \/ NextUpdate
    \/ Tick

SpecGate == InitBot /\ [][NextGate]_vars

\* the bot constructed from a loaded configuration, on plain updates from
\* two chats
ConfigUpdates ==
    {[m EXCEPT !.chat = c, !.from = 1, !.username = "bob"] :
        m \in {Text(<<"a">>), Command("listroles", <<>>), Command("ping", <<>>)}, c \in {1, 2}}

InitConfig ==
    /\ DirInit
    /\ RLQuiet
    /\ SeqQuiet
    /\ ev = NoEvent
    /\ ctx = "live"
    /\ scn = NoScenario
    /\ cfg \in {Load(env) : env \in AllowedChatsValues}

NextConfig ==
    \/ \E u \in ConfigUpdates : Receive(u)
    \/ HandleUpdate
    \/ NextUpdate
    \/ Tick

SpecConfig == InitConfig /\ [][NextConfig]_vars

\* writers that create roles and add members, and a reader
NextRead ==
    \/ \E p \in Procs, raw \in ReadRoleInputs : CreateRoleCall(p, raw)
    \/ \E p \in Procs : CreateRoleExec(p)
    \/ \E p \in Procs, r \in ReadRoleInputs, u \in ConcUserInputs : AddUserToRoleCall(p, r, u)
    \/ \E p \in Procs : AddUserToRoleUpsert(p)
    \/ \E p \in Procs : AddUserToRoleCheck(p)
    \/ \E p \in Procs : AddUserToRoleInsert(p)
    \/ \E p \in Procs : AddUserToRoleCommit(p)
    \/ \E p \in Procs : Return(p)
    \/ \E r \in ReadRoleInputs : ReadUsersInRole(r)
    \/ ReadAllRoles

SpecRead == Init /\ [][NextRead]_vars

NextSeq ==
    \/ \E r \in RoleInputs : SeqCreateRole(r)
    \/ \E r \in RoleInputs : SeqRemoveRole(r)
    \/ \E r \in RoleInputs, u \in UserInputs : SeqAddUserToRole(r, u)
    \/ \E r \in RoleInputs, u \in UserInputs : SeqRemoveUserFromRole(r, u)
    \/ \E r \in RoleInputs : SeqGetUsersInRole(r)
    \/ SeqGetAllRoles

SpecSeq == Init /\ [][NextSeq]_vars

\* one caller, any calls in any order, followed across removal and re-creation
NextRecreate ==
    \/ \E r \in RecreateRoles : RcCreateRole(r)
    \/ \E r \in RecreateRoles : RcRemoveRole(r)
    \/ \E r \in RecreateRoles, u \in RecreateUsers : RcAddUserToRole(r, u)
    \/ \E r \in RecreateRoles, u \in RecreateUsers : RcRemoveUserFromRole(r, u)
    \/ \E r \in RecreateRoles : RcGetUsersInRole(r)

SpecRecreate == Init /\ [][NextRecreate]_vars

\* calls of any kind first, then the script from its first call to its last
NextScript ==
    \/ ~scn.on /\ \E r \in ScriptRoles : SeqCreateRole(r)
    \/ ~scn.on /\ \E r \in ScriptRoles : SeqRemoveRole(r)
    \/ ~scn.on /\ \E r \in ScriptRoles, u \in ScriptUsers : SeqAddUserToRole(r, u)
    \/ ~scn.on /\ \E r \in ScriptRoles, u \in ScriptUsers : SeqRemoveUserFromRole(r, u)
    \/ \E r \in ScriptRoles, a, b, c \in ScriptUsers : ScriptStart(r, a, b, c)
    \/ ScriptStep

SpecScript == Init /\ [][NextScript]_vars

\* One caller persisting names of every spelling the sanitizers treat: a
\* name cut by the cap right after a blank, upper case, newlines, and user
\* names with "@" in front of "@" or of a blank.
CutAfterBlank == SubSeq(CapName, 1, maxInputLength - 1) \o <<" ", "a">>

NormRoleInputs == {<<"A", "\n">>, CutAfterBlank, <<" ">>}
NormUserInputs == {<<"B">>, <<"@", "@", "a">>, <<"@", " ", "a">>, <<"@">>}

NextNorm ==
    \/ \E r \in NormRoleInputs : SeqCreateRole(r)
    \/ \E r \in NormRoleInputs : SeqRemoveRole(r)
    \/ \E r \in NormRoleInputs, u \in NormUserInputs : SeqAddUserToRole(r, u)
    \/ \E r \in NormRoleInputs : SeqGetUsersInRole(r)
    \/ SeqGetAllRoles

SpecNorm == Init /\ [][NextNorm]_vars

(***************************************************************************)
(* Properties of the directory under concurrent callers (Spec)             *)
(***************************************************************************)
NoDanglingEdge(d) ==
    \A e \in d.role_users :
        /\ \E r \in d.roles : r.id = e.role_id
        /\ \E u \in d.users : u.id = e.user_id

RoleNamesUnique(d) == \A r1, r2 \in d.roles : r1.name = r2.name => r1 = r2
UserNamesUnique(d) == \A u1, u2 \in d.users : u1.name = u2.name => u1 = u2

\* the edges joining the role named rn and the user named un
EdgesOf(d, rn, un) == d.role_users \cap SelectedPairs(d, rn, un)

RoleNamesIn(d) == {r.name : r \in d.roles}
UserNamesIn(d) == {u.name : u \in d.users}

\* C1: in every reachable state of the directory every membership edge
\* references a role row and a user row that exist, and a (role, user) pair
\* of names is joined by at most one edge.
C1_EdgesReferToLiveRows ==
    /\ NoDanglingEdge(db)
    /\ \A rn \in RoleNamesIn(db), un \in UserNamesIn(db) : Cardinality(EdgesOf(db, rn, un)) <= 1

\* an edge survives although a role that was created has been removed
C1_Witness ==
    /\ db.role_users # {}
    /\ Cardinality(db.roles) < db.seqRoles
    /\ hist.gone > 0

C2_WitnessNotFound ==
    \E p, q \in Procs :
        /\ p # q
        /\ pc[p] = "done" /\ pc[q] = "done"
        /\ call[p].op = "AddUserToRole" /\ call[q].op = "RemoveRole"
        /\ call[p].role = call[q].role
        /\ hist.on /\ hist.pre
        /\ res[p] = "ErrRoleNotFound" /\ res[q] = "nil"

\* C6: an AddUserToRole whose role check finds no such role returns
\* ErrRoleNotFound and leaves the committed directory as it was: no step of
\* the call up to and including the failed check changes it, and the user row
\* upserted in the transaction is not in it.
C6_AddToMissingRoleStep ==
    \A p \in Procs :
        /\ (pc[p] = "idle" /\ call'[p].op = "AddUserToRole") => db' = db
        /\ (pc[p] = "upsert" /\ pc'[p] = "check") => db' = db
        /\ (pc[p] = "check" /\ ~RoleExists(db, call[p].role) /\ pc'[p] # "check")
             => /\ pc'[p] = "done"
                /\ res'[p] = "ErrRoleNotFound"
                /\ db' = db
                /\ lock' = "none"

C6_AddToMissingRole == [][C6_AddToMissingRoleStep]_vars

\* the call failed and the user it upserted is not in the directory
C6_Witness ==
    \E p \in Procs :
        /\ pc[p] = "done"
        /\ call[p].op = "AddUserToRole"
        /\ res[p] = "ErrRoleNotFound"
        /\ UserIds(db, call[p].user) = {}
        /\ db.roles # {}

\* C7: the DELETE of RemoveRole on a missing role returns ErrRoleNotFound and
\* changes nothing; on an existing role it returns nil and in that one step
\* removes the role row and every edge of it and nothing else, so that no
\* state has an edge of a removed role.
C7_RemoveRoleStep ==
    \A p \in Procs :
        (pc[p] = "remove" /\ pc'[p] = "done") =>
            LET ids == RoleIds(db, call[p].role) IN
            IF ids = {}
            THEN res'[p] = "ErrRoleNotFound" /\ db' = db
            ELSE /\ res'[p] = "nil"
                 /\ db'.roles = {r \in db.roles : r.name # call[p].role}
                 /\ db'.role_users = {e \in db.role_users : e.role_id \notin ids}
                 /\ db'.users = db.users
                 /\ NoDanglingEdge(db')

C7_RemoveRoleAtomic == [][C7_RemoveRoleStep]_vars

\* a RemoveRole returned nil after deleting a role with two members
C7_Witness ==
    \E p \in Procs :
        /\ pc[p] = "done"
        /\ call[p].op = "RemoveRole"
        /\ res[p] = "nil"
        /\ hist.gone = 2

\* C9: two CreateRole calls in flight together whose names sanitize to the
\* same name, none such existing, end with exactly one nil and one
\* ErrRoleAlreadyExists and one role row of that name; role names are unique
\* in every reachable state.
C9_CreateRace ==
    /\ RoleNamesUnique(db)
    /\ \A p, q \in Procs :
        ( /\ p # q
          /\ pc[p] = "done" /\ pc[q] = "done"
          /\ call[p].op = "CreateRole" /\ call[q].op = "CreateRole"
          /\ call[p].role = call[q].role
          /\ call[p].role # <<>>
          /\ hist.on /\ ~hist.pre )
        => /\ {res[p], res[q]} = {"nil", "ErrRoleAlreadyExists"}
           /\ Cardinality(RoleIds(db, call[p].role)) = 1

\* the two calls spelled the name differently
C9_Witness ==
    \E p, q \in Procs :
        /\ p # q
        /\ pc[p] = "done" /\ pc[q] = "done"
        /\ call[p].op = "CreateRole" /\ call[q].op = "CreateRole"
        /\ call[p].role = call[q].role
        /\ call[p].raw # call[q].raw
        /\ hist.on /\ ~hist.pre
        /\ res[p] = "nil" /\ res[q] = "ErrRoleAlreadyExists"

(***************************************************************************)
(* Properties of the rate limiter (SpecRL)                                 *)
(***************************************************************************)
\* how many admitted timestamps lie in the half-open interval (t - W, t]
AdmittedIn(log, t, w) == Len(SelectSeq(log, LAMBDA ts : t - w < ts /\ ts <= t))

\* C3: for every requester, limit N >= 1 and window W, at every time t the
\* requests admitted with a timestamp in (t - W, t] number at most N.
C3_SlidingWindow ==
    cfg.limit >= 1 =>
        \A u \in Requesters, t \in 0..MaxTime :
            AdmittedIn(admitted[u], t, cfg.window) <= cfg.limit

\* a window of two filled at two different times, and a call rejected
C3_Witness ==
    \E g \in Goroutines :
        /\ rl[g].pc = "done" /\ ~rl[g].ok
        /\ cfg.limit = 2 /\ cfg.window = 2
        /\ Len(admitted[rl[g].user]) = 2
        /\ admitted[rl[g].user][1] < admitted[rl[g].user][2]

InCriticalSection(g) == rl[g].pc \in {"prune", "check", "append", "unlock"}

C4_BothAdmittedAfterExpiry ==
    \E g, h \in Goroutines :
        /\ g # h
        /\ rl[g].pc = "done" /\ rl[h].pc = "done"
        /\ rl[g].user = rl[h].user
        /\ race.on /\ race.who = g /\ race.drop
        /\ race.seen = cfg.limit - 1
        /\ rl[g].ok /\ rl[h].ok

\* C11: with a limit N >= 1, an Allow call made at time now is admitted
\* exactly when fewer than N requests of its requester were admitted in
\* (now - W, now]: starting from an empty window the first N requests inside
\* one span shorter than W are admitted, a further request made while those N
\* are inside the window is rejected, and a request made once the oldest has
\* aged past W is admitted again.
C11_AdmitStep ==
    \A g \in Goroutines :
        (cfg.limit >= 1 /\ rl[g].pc = "check" /\ rl'[g].pc # "check") =>
            /\ rl'[g].pc \in {"append", "unlock"}
            /\ rl'[g].pc = "append"
                   <=> AdmittedIn(admitted[rl[g].user], rl[g].now, cfg.window) < cfg.limit

C11_FillRejectRecover == [][C11_AdmitStep]_vars

\* with N = 2 a call is admitted into a window that held an aged timestamp
\* and one still valid, so that the window is full again
C11_Witness ==
    \E g \in Goroutines :
        /\ cfg.limit = 2
        /\ rl[g].pc = "done" /\ rl[g].ok /\ rl[g].aged
        /\ Len(Lookup(requests, rl[g].user)) = 2
        /\ Len(admitted[rl[g].user]) = 2

\* C12: the prune keeps a stored timestamp exactly when it is strictly after
\* now - W, so a timestamp equal to now - W is dropped; with N = 1 a call is
\* admitted exactly when every earlier admission t0 of its requester has
\* now >= t0 + W, the boundary now = t0 + W included.
C12_BoundaryStep ==
    \A g \in Goroutines :
        LET u == rl[g].user IN
        /\ (rl[g].pc = "prune" /\ rl'[g].pc = "check") =>
              /\ Lookup(requests', u)
                    = SelectSeq(Lookup(requests, u), LAMBDA ts : ts > rl'[g].now - cfg.window)
              /\ \A i \in 1..Len(Lookup(requests', u)) :
                    Lookup(requests', u)[i] # rl'[g].now - cfg.window
        /\ (cfg.limit = 1 /\ rl[g].pc = "check" /\ rl'[g].pc # "check") =>
              ( rl'[g].pc = "append"
                  <=> \A i \in 1..Len(admitted[u]) : rl[g].now >= admitted[u][i] + cfg.window )

C12_BoundaryExpired == [][C12_BoundaryStep]_vars

\* with N = 1 and W = 2 the request at time 2 is admitted: the one admitted at
\* time 0 lay exactly on the cutoff and was dropped
C12_Witness ==
    \E g \in Goroutines :
        /\ cfg.limit = 1 /\ cfg.window = 2
        /\ rl[g].pc = "done" /\ rl[g].ok /\ rl[g].aged
        /\ rl[g].now = 2
        /\ Lookup(requests, rl[g].user) = <<2>>

\* with N = 1 a request one tick before the boundary was rejected
C12_WitnessBefore ==
    \E g \in Goroutines :
        /\ cfg.limit = 1 /\ cfg.window = 2
        /\ rl[g].pc = "done" /\ ~rl[g].ok
        /\ rl[g].now = 1
        /\ Lookup(requests, rl[g].user) = <<0>>

(***************************************************************************)
(* Properties of the store under one caller (SpecSeq)                      *)
(***************************************************************************)
\* how often x occurs in the sequence
Occurrences(seq, x) == Cardinality({i \in DOMAIN seq : seq[i] = x})

\* C8: when CreateRole(a) is followed by CreateRole(b) and a and b normalize
\* to the same non-empty name (they differ in letter case, in surrounding
\* whitespace or past the length cap), the second call fails with
\* AlreadyExists and leaves the roles, and the whole database, as they were.
C8_SecondCreateStep ==
    ( /\ last.op = "CreateRole"
      /\ last'.op = "CreateRole"
      /\ SanitizeRoleName(last.role) # <<>>
      /\ SanitizeRoleName(last'.role) = SanitizeRoleName(last.role) )
    => /\ last'.err = "ErrRoleAlreadyExists"
       /\ db'.roles = db.roles
       /\ db' = db

C8_CreateTwice == [][C8_SecondCreateStep]_vars

\* a CreateRole failed with AlreadyExists right after a CreateRole of another
\* spelling of the same name
C8_Witness ==
    /\ last.op = "CreateRole"
    /\ last.respelled
    /\ last.err = "ErrRoleAlreadyExists"
    /\ Cardinality(db.roles) = 1

\* C10: AddUserToRole(r, u) on an existing role r with a valid handle u
\* succeeds, and GetUsersInRole(r) then holds u exactly once; when the call
\* before it was a successful AddUserToRole of the same normalized role and
\* handle, in the same or in another spelling, the database after the second
\* call equals the database after the first.
C10_AddStep ==
    ( /\ last'.op = "AddUserToRole"
      /\ RoleExists(db, SanitizeRoleName(last'.role))
      /\ SanitizeRoleName(last'.role) # <<>>
      /\ SanitizeUsername(last'.user) # <<>> )
    => /\ last'.err = "nil"
       /\ GetUsersInRole(db', last'.role).err = "nil"
       /\ Occurrences(GetUsersInRole(db', last'.role).users, SanitizeUsername(last'.user)) = 1
       /\ ( /\ last.op = "AddUserToRole"
            /\ last.err = "nil"
            /\ SanitizeRoleName(last.role) = SanitizeRoleName(last'.role)
            /\ SanitizeUsername(last.user) = SanitizeUsername(last'.user) )
          => db' = db

C10_AddTwice == [][C10_AddStep]_vars

\* the second of two successful AddUserToRole calls spelled the handle or the
\* role differently from the first
C10_Witness ==
    /\ last.op = "AddUserToRole"
    /\ last.respelled
    /\ last.user # <<"a">>
    /\ last.err = "nil"
    /\ Cardinality(db.role_users) = 1

(***************************************************************************)
(* Properties of the bot (SpecBot)                                         *)
(***************************************************************************)
\* C5: the database (roles, users, membership edges) changes only in a step
\* that handles an update which carries a message, passed ValidateMessage,
\* is one of the commands createrole, removerole, addtorole, removefromrole
\* and comes from the sender whose username equals the configured admin
\* username; handling ping, listroles, listmembers, help, status, an unknown
\* command, an @role mention or a plain message leaves it as it was.
C5_DirectoryChangeStep ==
    /\ db' # db =>
          /\ ev.at = "handle" /\ ev'.at = "handled"
          /\ ev.update.message
          /\ ev'.err = "nil"
          /\ ev.update.command \in {"createrole", "removerole", "addtorole", "removefromrole"}
          /\ ev.update.username = cfg.AdminUsername
    /\ ( /\ ev.at = "handle"
         /\ ev.update.command \notin {"createrole", "removerole", "addtorole", "removefromrole"} )
       => db' = db

C5_OnlyAdminCommandsChange == [][C5_DirectoryChangeStep]_vars

\* the admin's addtorole was handled and changed the database
C5_Witness ==
    /\ ev.at = "handled"
    /\ ev.changed
    /\ ev.update.command = "addtorole"
    /\ ev.update.username = cfg.AdminUsername
    /\ db.role_users # {}

\* createrole from a sender who is not the admin was admitted and handled
C5_WitnessRefused ==
    /\ ev.at = "handled"
    /\ ev.err = "nil"
    /\ ev.update.command = "createrole"
    /\ ev.update.username = "Admin"
    /\ ~ev.changed

\* the checks of the admission gate, each taken by itself, for an update u in
\* the state it is handled in
ChatFails(u) == cfg.AllowedChats # {} /\ u.chat \notin cfg.AllowedChats

RateFails(u) ==
    Len(SelectSeq(Lookup(requests, u.from), LAMBDA ts : ts > clock - cfg.window)) >= cfg.limit

LengthFails(u) == TrimmedTextLen(u) > telegramMessageLimit

\* C13: ValidateMessage returns the error of the first check that fails in
\* the order chat allow-list, rate limit, message length: ChatNotAllowed
\* whenever the chat check fails, RateLimited when it passes and the rate
\* check fails, InvalidInput when only the length check fails, nil otherwise.
C13_OrderStep ==
    (ev.at = "handle" /\ ev'.at = "handled" /\ ev.update.message) =>
        ev'.err = IF ChatFails(ev.update) THEN "ChatNotAllowed"
                  ELSE IF RateFails(ev.update) THEN "ErrRateLimited"
                  ELSE IF LengthFails(ev.update) THEN "ErrInvalidInput"
                  ELSE "nil"

C13_FirstFailingCheck == [][C13_OrderStep]_vars

\* an update failing all three checks was rejected for its chat
C13_Witness ==
    /\ ev.at = "handled"
    /\ ChatFails(ev.update) /\ RateFails(ev.update) /\ LengthFails(ev.update)
    /\ ev.err = "ChatNotAllowed"

\* an over-long update of an exhausted requester was rejected for its rate
C13_WitnessRate ==
    /\ ev.at = "handled"
    /\ ~ChatFails(ev.update) /\ LengthFails(ev.update)
    /\ ev.err = "ErrRateLimited"

\* C14: with a non-empty allow-list ValidateMessage fails with ChatNotAllowed
\* for every message from a chat that is not in the list and never for a chat
\* in the list; with an empty allow-list it never fails with ChatNotAllowed.
C14_AllowList ==
    (ev.at = "handled" /\ ev.update.message) =>
        /\ (cfg.AllowedChats # {} /\ ev.update.chat \notin cfg.AllowedChats)
              => ev.err = "ChatNotAllowed"
        /\ ev.update.chat \in cfg.AllowedChats => ev.err # "ChatNotAllowed"
        /\ cfg.AllowedChats = {} => ev.err # "ChatNotAllowed"

\* a message from chat 2 was rejected under the allow-list {1}
C14_Witness ==
    /\ ev.at = "handled"
    /\ cfg.AllowedChats = {1}
    /\ ev.update.chat = 2
    /\ ev.err = "ChatNotAllowed"

\* the same message passed when no allow-list is configured
C14_WitnessOpen ==
    /\ ev.at = "handled"
    /\ cfg.AllowedChats = {}
    /\ ev.update.chat = 2
    /\ ev.err = "nil"

\* C15: handling an update that ValidateMessage rejected with RateLimited or
\* ChatNotAllowed makes no bot.Send call and no store call, and leaves the
\* database as it was.
C15_SilentRejection ==
    (ev.at = "handled" /\ ev.err \in {"ErrRateLimited", "ChatNotAllowed"}) =>
        /\ ev.sends = 0
        /\ ev.out.called = "none"
        /\ ev.out.reply = NoReply
        /\ ~ev.changed

\* the admin's createrole was rejected for its rate and nothing was sent
C15_Witness ==
    /\ ev.at = "handled"
    /\ ev.err = "ErrRateLimited"
    /\ ev.update.command = "createrole"
    /\ ev.update.username = cfg.AdminUsername
    /\ ev.sends = 0

\* C16: an admitted command named createrole, removerole, addtorole or
\* removefromrole whose sender's username differs from the configured admin
\* username (compared as it is, case included) is answered with the fixed
\* unauthorized message, in one send, makes no store call and leaves the
\* database unchanged, whatever its arguments.
C16_Unauthorized ==
    ( /\ ev.at = "handled"
      /\ ev.err = "nil"
      /\ ev.update.command \in {"createrole", "removerole", "addtorole", "removefromrole"}
      /\ ev.update.username # cfg.AdminUsername )
    => /\ ev.out.reply = Reply("", "MsgUnauthorized", <<>>)
       /\ ev.sends = 1
       /\ ev.out.called = "none"
       /\ ~ev.changed

\* a well-formed addtorole from the sender "Admin" was refused
C16_Witness ==
    /\ ev.at = "handled"
    /\ ev.err = "nil"
    /\ ev.update.command = "addtorole"
    /\ ev.update.args = <<"a", " ", "a">>
    /\ ev.update.username = "Admin"
    /\ db.roles # {}
    /\ ev.out.reply.body = "MsgUnauthorized"

\* The tokens of s separated by runs of white space, white space around them
\* dropped.
RECURSIVE Fields(_)
Fields(s) ==
    LET t == TrimLeft(s) IN
    IF t = <<>> THEN <<>>
    ELSE LET n == IF \E k \in 1..Len(t) : IsSpace(t[k])
                  THEN CHOOSE k \in 1..Len(t) :
                          IsSpace(t[k]) /\ \A j \in 1..(k - 1) : ~IsSpace(t[j])
                  ELSE Len(t) + 1
         IN  <<SubSeq(t, 1, n - 1)>> \o Fields(SubSeq(t, n, Len(t)))

\* the store method and the usage message of the two membership commands
MembershipCall(command) ==
    IF command = "addtorole" THEN "AddUserToRole" ELSE "RemoveUserFromRole"

MembershipUsage(command) ==
    IF command = "addtorole" THEN "MsgUsageAddToRole" ELSE "MsgUsageRemoveFromRole"

\* C17: for an admitted addtorole or removefromrole from the admin, an
\* argument string of exactly two tokens separated by white space invokes the
\* store method with those two tokens, and every other argument string is
\* answered with the usage message without a store call.
C17_TwoTokens ==
    ( /\ ev.at = "handled"
      /\ ev.err = "nil"
      /\ ev.update.command \in {"addtorole", "removefromrole"}
      /\ ev.update.username = cfg.AdminUsername )
    => IF Len(Fields(ev.update.args)) = 2
       THEN /\ ev.out.called = MembershipCall(ev.update.command)
            /\ ev.out.with = Fields(ev.update.args)
       ELSE /\ ev.out.called = "none"
            /\ ev.out.reply = Reply("", MembershipUsage(ev.update.command), <<>>)

\* the update being handled is an admitted command / mention / other message
AdmittedCommand == ev.err = "nil" /\ ev.update.message /\ ev.update.command # ""

AdmittedMention ==
    /\ ev.err = "nil" /\ ev.update.message /\ ev.update.command = ""
    /\ ev.update.text # <<>> /\ Head(ev.update.text) = "@"

AdmittedPlain ==
    /\ ev.err = "nil" /\ ev.update.message /\ ev.update.command = ""
    /\ (ev.update.text = <<>> \/ Head(ev.update.text) # "@")

\* the role a mention names has at least one member in the database
MentionedRoleHasMembers ==
    \E r \in db.roles, e \in db.role_users :
        /\ r.name = SanitizeRoleName(TrimPrefixAt(ev.update.text))
        /\ e.role_id = r.id

\* C18: handling an update makes at most one bot.Send call: exactly one for
\* every admitted command (known or unknown, authorized or not, store success
\* or error), exactly one for an admitted @role mention whose role has a
\* member, none for a mention whose role has no member and none for an
\* admitted message that is neither a command nor a mention.
C18_AtMostOneSend ==
    ev.at = "handled" =>
        /\ ev.sends \in {0, 1}
        /\ AdmittedCommand => ev.sends = 1
        /\ (AdmittedMention /\ MentionedRoleHasMembers) => ev.sends = 1
        /\ (AdmittedMention /\ ~MentionedRoleHasMembers) => ev.sends = 0
        /\ AdmittedPlain => ev.sends = 0

\* a mention of a role with a member was answered with one send
C18_Witness ==
    /\ ev.at = "handled"
    /\ AdmittedMention
    /\ MentionedRoleHasMembers
    /\ ev.sends = 1
    /\ ev.out.reply.users # <<>>

\* a mention of an existing role without members was answered with none
C18_WitnessNoMembers ==
    /\ ev.at = "handled"
    /\ AdmittedMention
    /\ db.roles # {}
    /\ ~MentionedRoleHasMembers
    /\ ev.sends = 0

\* a command whose store call failed was answered with one send
C18_WitnessCommandError ==
    /\ ev.at = "handled"
    /\ AdmittedCommand
    /\ ev.out.derr # "nil"
    /\ ev.sends = 1

\* C19: every error other than RateLimited and ChatNotAllowed met while
\* handling an update (InvalidInput from the length check of ValidateMessage,
\* or any error a store call made for a command or for a mention returned)
\* is answered with exactly one send whose text starts with the error marker.
C19_ErrorsAnswered ==
    ( /\ ev.at = "handled"
      /\ (ev.err = "ErrInvalidInput" \/ ev.out.derr # "nil") )
    => /\ ev.sends = 1
       /\ ev.out.reply.prefix = "PrefixError"

\* the part of C19 the code keeps: a store error met by a command handler is
\* answered with one send carrying the error marker
C19_CommandErrorsAnswered ==
    ( /\ ev.at = "handled"
      /\ ev.update.command # ""
      /\ ev.out.derr # "nil" )
    => /\ ev.sends = 1
       /\ ev.out.reply = Reply("PrefixError", ev.out.derr, <<>>)

\* C20: RemoveUserFromRole(r, u), for names that are not empty once
\* normalized, fails with ErrUserNotFound ("user not found in role") and
\* leaves the database as it was when the edge (r, u) is not there, be it
\* that the role or the user is not there either; when the edge is there it
\* succeeds and deletes that edge alone: the role, the user row and every
\* other edge stay.
C20_RemoveStep ==
    LET rn == SanitizeRoleName(last'.role)
        un == SanitizeUsername(last'.user)
    IN  (last'.op = "RemoveUserFromRole" /\ rn # <<>> /\ un # <<>>) =>
            IF EdgesOf(db, rn, un) = {}
            THEN last'.err = "ErrUserNotFound" /\ db' = db
            ELSE /\ last'.err = "nil"
                 /\ db'.role_users = db.role_users \ EdgesOf(db, rn, un)
                 /\ db'.roles = db.roles
                 /\ db'.users = db.users

C20_RemoveEdgeOnly == [][C20_RemoveStep]_vars

\* an edge was removed and the other edge of the same role is still there
C20_Witness ==
    /\ last.op = "RemoveUserFromRole"
    /\ last.err = "nil"
    /\ Cardinality(db.users) = 2
    /\ Cardinality(db.role_users) = 1
    /\ \E r \in db.roles : r.name = SanitizeRoleName(last.role)
    /\ \E u \in db.users : u.name = SanitizeUsername(last.user)

\* the removal failed for a role that does not exist
C20_WitnessNoRole ==
    /\ last.op = "RemoveUserFromRole"
    /\ last.err = "ErrUserNotFound"
    /\ db.role_users # {}
    /\ ~RoleExists(db, SanitizeRoleName(last.role))

\* the removal failed for an existing role and an existing user not joined
C20_WitnessNoEdge ==
    /\ last.op = "RemoveUserFromRole"
    /\ last.err = "ErrUserNotFound"
    /\ RoleExists(db, SanitizeRoleName(last.role))
    /\ UserIds(db, SanitizeUsername(last.user)) # {}

\* C21: GetUsersInRole(r), for a name that is not empty once normalized,
\* never fails: it returns the empty sequence and no error when the role is
\* not there and when the role is there without members, and it never
\* changes the database.
C21_ReadStep ==
    LET rn == SanitizeRoleName(last'.role) IN
    (last'.op = "GetUsersInRole" /\ rn # <<>>) =>
        /\ last'.err = "nil"
        /\ db' = db
        /\ ( \/ ~RoleExists(db, rn)
             \/ \A e \in db.role_users : e.role_id \notin RoleIds(db, rn) )
           => last'.users = <<>>

C21_EmptyNotError == [][C21_ReadStep]_vars

\* the members of a role that is not there were read while other roles are
C21_Witness ==
    /\ last.op = "GetUsersInRole"
    /\ SanitizeRoleName(last.role) # <<>>
    /\ ~RoleExists(db, SanitizeRoleName(last.role))
    /\ db.role_users # {}
    /\ last.err = "nil"
    /\ last.users = <<>>

\* the members of a role that is there without members were read
C21_WitnessNoMembers ==
    /\ last.op = "GetUsersInRole"
    /\ RoleExists(db, SanitizeRoleName(last.role))
    /\ db.role_users = {}
    /\ db.users # {}
    /\ last.err = "nil"
    /\ last.users = <<>>

\* seq holds exactly the names of the set, each once, in ascending order
AscendingListOf(seq, names) ==
    /\ {seq[i] : i \in DOMAIN seq} = names
    /\ \A i \in 1..(Len(seq) - 1) : StrLess(seq[i], seq[i + 1])

\* the names of the users joined to the role named rn
MembersOf(d, rn) ==
    {u.name : u \in {x \in d.users :
        \E e \in d.role_users : e.user_id = x.id /\ e.role_id \in RoleIds(d, rn)}}

\* C22: in every reachable database GetAllRoles returns exactly the names of
\* the roles, each once, in ascending lexicographic order, and
\* GetUsersInRole(r) returns exactly the names of the users joined to r, each
\* once, in ascending lexicographic order.
C22_SortedReads ==
    /\ GetAllRoles(db).err = "nil"
    /\ AscendingListOf(GetAllRoles(db).roles, RoleNamesIn(db))
    /\ \A r \in RoleNamesIn(db) :
          /\ GetUsersInRole(db, r).err = "nil"
          /\ AscendingListOf(GetUsersInRole(db, r).users, MembersOf(db, r))
    /\ last.op = "GetAllRoles" => AscendingListOf(last.users, RoleNamesIn(db))
    /\ (last.op = "GetUsersInRole" /\ last.err = "nil")
          => AscendingListOf(last.users, MembersOf(db, SanitizeRoleName(last.role)))

\* two members were read in the order of their names, the later name having
\* been inserted first
C22_Witness ==
    /\ last.op = "GetUsersInRole"
    /\ Len(last.users) = 2
    /\ StrLess(last.users[1], last.users[2])
    /\ \E u1, u2 \in db.users :
          u1.name = last.users[1] /\ u2.name = last.users[2] /\ u2.id < u1.id

\* two roles were listed in the order of their names, the later name having
\* been created first
C22_WitnessRoles ==
    /\ last.op = "GetAllRoles"
    /\ Len(last.users) = 2
    /\ \E r1, r2 \in db.roles :
          r1.name = last.users[1] /\ r2.name = last.users[2] /\ r2.id < r1.id

\* C23: CreateRole, AddUserToRole and GetUsersInRole fail with
\* ErrInvalidInput and leave the database as it was whenever the role name,
\* or for AddUserToRole the user name, is empty once normalized.
C23_EmptyStep ==
    ( /\ last'.op \in {"CreateRole", "AddUserToRole", "GetUsersInRole"}
      /\ \/ SanitizeRoleName(last'.role) = <<>>
         \/ (last'.op = "AddUserToRole" /\ SanitizeUsername(last'.user) = <<>>) )
    => /\ last'.err = "ErrInvalidInput"
       /\ db' = db

C23_EmptyRejected == [][C23_EmptyStep]_vars

\* the user "@" was refused for a role that is there
C23_Witness ==
    /\ last.op = "AddUserToRole"
    /\ last.user = <<"@">>
    /\ RoleExists(db, SanitizeRoleName(last.role))
    /\ last.err = "ErrInvalidInput"

\* a role name of white space was refused
C23_WitnessRole ==
    /\ last.op = "CreateRole"
    /\ last.role = <<" ">>
    /\ last.err = "ErrInvalidInput"

\* a stored name in normal form: lower case, no white space at either end,
\* within the cap
NormalForm(n) ==
    /\ ToLower(n) = n
    /\ TrimSpace(n) = n
    /\ Len(n) <= maxInputLength

\* C24: every role name and every user name the database holds is in normal
\* form: lower case, no white space at either end, within the cap, a user
\* name without "@" in front, and the sanitizer applied to it returns it.
C24_StoredNormalForm ==
    /\ \A r \in db.roles :
          NormalForm(r.name) /\ SanitizeRoleName(r.name) = r.name
    /\ \A u \in db.users :
          /\ NormalForm(u.name)
          /\ u.name # <<>> => Head(u.name) # "@"
          /\ SanitizeUsername(u.name) = u.name

\* the part of C24 the sanitizers keep: stored names are lower case, within
\* the cap, not empty, without newline, and begin with no white space unless
\* an "@" stood in front
C24_LowerCappedNonEmpty ==
    /\ \A r \in db.roles :
          /\ ToLower(r.name) = r.name
          /\ Len(r.name) \in 1..maxInputLength
          /\ TrimLeft(r.name) = r.name
          /\ \A i \in DOMAIN r.name : r.name[i] \notin {"\n", "\r"}
    /\ \A u \in db.users :
          /\ ToLower(u.name) = u.name
          /\ Len(u.name) \in 1..maxInputLength

\* C25: on a database without the role r and for users a < b < c, the calls
\* CreateRole(r), AddUserToRole(r, a), AddUserToRole(r, b) succeed and
\* GetUsersInRole(r) then returns [a, b]; after RemoveUserFromRole(r, a) it
\* returns [b]; after RemoveRole(r), AddUserToRole(r, c) fails with
\* ErrRoleNotFound.
C25_Script ==
    scn.on =>
        /\ \A k \in 1..Len(scn.errs) : k < ScriptLength => scn.errs[k] = "nil"
        /\ Len(scn.reads) >= 1
              => scn.reads[1] = <<SanitizeUsername(scn.a), SanitizeUsername(scn.b)>>
        /\ Len(scn.reads) >= 2 => scn.reads[2] = <<SanitizeUsername(scn.b)>>
        /\ scn.step = ScriptLength => scn.errs[ScriptLength] = "ErrRoleNotFound"

\* the whole script ran on a database where another role with a member had
\* been left, the user b having been inserted before a
C25_Witness ==
    /\ scn.step = ScriptLength
    /\ scn.errs[ScriptLength] = "ErrRoleNotFound"
    /\ scn.reads = << <<(<<"a">>), (<<"b">>)>>, <<(<<"b">>)>> >>
    /\ db.roles # {}
    /\ db.role_users # {}
    /\ \E u1, u2 \in db.users : u1.name = <<"a">> /\ u2.name = <<"b">> /\ u2.id < u1.id

\* role names as a sender may spell them after "/ping " and after "@"
PingRoles == {<<"a">>, <<"A">>, <<"a", " ">>, <<" ", "a">>, <<"b">>}

\* what the command "ping r" and the message "@r" come to on the database
PingOf(r) ==
    Handle(db, cfg, [Command("ping", r) EXCEPT !.username = "bob", !.chat = 1, !.from = 2])

MentionOf(r) == handleRoleMention(db, Text(<<"@">> \o r))

\* C26 as stated: for every database and role name r, "@r" and "ping r"
\* query the same normalized role, make the same number of sends, and name
\* the same members in the same order.
C26_MentionIsPing ==
    \A r \in PingRoles :
        \E p \in {PingOf(r)}, m \in {MentionOf(r)} :
            /\ p.out.called = m.out.called
            /\ p.out.with = m.out.with
            /\ p.sends = m.sends
            /\ p.out.reply.users = m.out.reply.users

\* C26: for every database and non-empty role name r, "@r" and "ping r" query
\* the same normalized role; when the role has a member each makes one send
\* naming the same members in the same order; when it has none (or is not
\* there) "ping r" makes one send saying so and "@r" makes none.
C26_MentionIsPingWithMembers ==
    \A r \in PingRoles :
        \E p \in {PingOf(r)}, m \in {MentionOf(r)}, members \in {MembersOf(db, SanitizeRoleName(r))} :
            /\ p.out.called = "GetUsersInRole"
            /\ m.out.called = "GetUsersInRole"
            /\ p.out.with = m.out.with
            /\ p.sends = 1
            /\ IF members # {}
               THEN /\ m.sends = 1
                    /\ p.out.reply.users = m.out.reply.users
                    /\ AscendingListOf(m.out.reply.users, members)
               ELSE /\ m.sends = 0
                    /\ p.out.reply.users = <<>>

\* the mention "@a" was answered with the members "ping a" names
C26_Witness ==
    /\ ev.at = "handled"
    /\ AdmittedMention
    /\ ev.sends = 1
    /\ ev.out.reply.users # <<>>
    /\ PingOf(<<"a">>).out.reply.users = ev.out.reply.users

\* the mention "@a" of a role without members got no answer, where "ping a"
\* sends one
C26_WitnessNoMembers ==
    /\ ev.at = "handled"
    /\ AdmittedMention
    /\ RoleExists(db, <<"a">>)
    /\ ev.out.called = "GetUsersInRole"
    /\ ev.out.derr = "nil"
    /\ ev.sends = 0
    /\ PingOf(<<"a">>).sends = 1

\* C27: an error while handling an update (a rejection by ValidateMessage, a
\* store error, a failed send) never ends the loop of Start: from there the
\* loop comes back to its select, and Start returns only from its select
\* and only when the context was cancelled.
C27_LoopStep ==
    /\ (ev.at = "handled" /\ HandlingError(ev) /\ ev' # ev) => ev'.at = "select"
    /\ (ev.at # "returned" /\ ev'.at = "returned") => (ev.at = "select" /\ ctx = "cancelled")

C27_ErrorsNotFatal ==
    /\ [][C27_LoopStep]_vars
    /\ (ev.at = "handled" /\ HandlingError(ev)) ~> (ev.at = "select")

\* with the context live, an update was handled after one that ended in error
C27_Witness ==
    /\ ev.at = "handled"
    /\ ev.after
    /\ ctx = "live"
    /\ ev.err = "nil"
    /\ ev.changed

\* an update whose send failed was handled, the one before having failed too
C27_WitnessSendFailed ==
    /\ ev.at = "handled"
    /\ ev.after
    /\ ev.failed
    /\ ev.logged = "SendError"
    /\ ctx = "live"

\* C28: once the context is cancelled Start returns in the end, with a nil
\* error, whatever updates keep arriving; after it has returned no update is
\* handled.
C28_ReturnedStep ==
    ev.at = "returned" => (ev' = ev /\ db' = db /\ requests' = requests)

C28_CancelReturns ==
    /\ (ctx = "cancelled") ~> (ev.at = "returned" /\ ev.start = "nil")
    /\ [][C28_ReturnedStep]_vars

\* Start has returned nil after cancellation, having handled updates before
C28_Witness ==
    /\ ev.at = "returned"
    /\ ev.start = "nil"
    /\ ctx = "cancelled"
    /\ db.roles # {}

\* C29: a store call in flight when the context is cancelled returns without
\* completing: no change of the database is committed after the
\* cancellation.
C29_CutStep == (ev.at = "handle" /\ ev.cut) => db' = db

C29_NoCommitAfterCancel == [][C29_CutStep]_vars

(***************************************************************************)
(* C30                                                                     *)
(***************************************************************************)
\* the user row, and the edge, of an AddUserToRole call in a database
UserPresent(d, c) == UserIds(d, c.user) # {}
EdgePresent(d, c) ==
    /\ SelectedPairs(d, c.role, c.user) # {}
    /\ SelectedPairs(d, c.role, c.user) \subseteq d.role_users

\* the caller is inside the transaction of an AddUserToRole call
InTransaction(p) ==
    call[p].op = "AddUserToRole" /\ pc[p] \in {"upsert", "check", "insert", "commit"}

\* a statement of an AddUserToRole call changes what a query sees only when
\* it is the Commit, and then the user row and the edge are both there; a
\* call that ends in failure has changed nothing a query sees
C30_WriterStep ==
    \A p \in Procs :
        (InTransaction(p) /\ pc'[p] # pc[p]) =>
            IF pc'[p] = "done" /\ res'[p] = "nil"
            THEN UserPresent(ReaderView', call[p]) /\ EdgePresent(ReaderView', call[p])
            ELSE ReaderView' = ReaderView

\* a query made while a transaction is open returns what the committed
\* database holds: a member the open call is adding is listed only when its
\* user row and its edge were committed before
C30_ReaderStep ==
    (last' # last /\ last'.amid # "none") =>
        \A p \in Procs :
            (lock = p /\ InTransaction(p)) =>
                /\ last'.op = "GetUsersInRole" =>
                      /\ last'.users = GetUsersInRole(db, last'.role).users
                      /\ (/\ SanitizeRoleName(last'.role) = call[p].role
                          /\ \E i \in 1..Len(last'.users) : last'.users[i] = call[p].user)
                         => (UserPresent(db, call[p]) /\ EdgePresent(db, call[p]))
                /\ last'.op = "GetAllRoles" => last'.users = GetAllRoles(db).roles

\* C30: a reader (GetUsersInRole, GetAllRoles) running beside AddUserToRole(r, u)
\* never observes an intermediate state of the call: what a query can see
\* holds either none of the call's effects or both the user row and the
\* edge (r, u), and never a user row of a call that ends in failure.
C30_NoPartialRead == [][C30_WriterStep /\ C30_ReaderStep]_vars

\* a query listed no member while the open transaction held the new user row
\* and the new edge, and the call has since committed them
C30_Witness ==
    /\ last.op = "GetUsersInRole" /\ last.amid = "commit" /\ last.users = <<>>
    /\ \E p \in Procs :
          /\ call[p].op = "AddUserToRole" /\ pc[p] = "done" /\ res[p] = "nil"
          /\ call[p].role = SanitizeRoleName(last.role)
          /\ EdgePresent(db, call[p])
          /\ Cardinality(db.users) = 1

\* a query ran between the upsert and the check of a call to a missing role;
\* the call failed and no user row is left
C30_WitnessFailed ==
    /\ last.op = "GetAllRoles" /\ last.amid = "check"
    /\ \E p \in Procs :
          /\ call[p].op = "AddUserToRole" /\ pc[p] = "done" /\ res[p] = "ErrRoleNotFound"
    /\ db.users = {}

(***************************************************************************)
(* C31                                                                     *)
(***************************************************************************)
\* the update was handled and passed the chat and the rate-limit check
PassedChatAndRate(e) ==
    /\ e.at = "handled" /\ e.update.message
    /\ e.err \notin {"ChatNotAllowed", "ErrRateLimited"}

\* C31: given the chat and rate-limit checks pass, ValidateMessage fails with
\* InvalidInput for every message whose text is longer than the limit in
\* characters, and for no message whose text is at the limit or shorter.
C31_LengthLimit ==
    PassedChatAndRate(ev) =>
        (ev.err = "ErrInvalidInput" <=> TextChars(ev.update) > telegramMessageLimit)

\* what the code enforces: the limit on the bytes of the trimmed text
C31_TrimmedByteLimit ==
    PassedChatAndRate(ev) =>
        (ev.err = "ErrInvalidInput" <=> TrimmedTextLen(ev.update) > telegramMessageLimit)

\* a text within the limit in characters was rejected for its length
C31_WitnessBytes ==
    /\ PassedChatAndRate(ev) /\ ev.err = "ErrInvalidInput"
    /\ TextChars(ev.update) <= telegramMessageLimit

\* a text above the limit was let through
C31_WitnessPadded ==
    /\ PassedChatAndRate(ev) /\ ev.err = "nil"
    /\ TextChars(ev.update) > telegramMessageLimit

(***************************************************************************)
(* C32                                                                     *)
(***************************************************************************)
NonDecreasing(w) == \A i \in 1..(Len(w) - 1) : w[i] <= w[i + 1]

\* C32: with a limit N >= 0, every requester's stored window has at most N
\* timestamps, in non-decreasing order, and right after an Allow call for
\* the requester it holds only timestamps strictly later than the time of
\* that call minus W.
C32_StoredWindow ==
    /\ \A u \in DOMAIN requests :
          Len(requests[u]) <= cfg.limit /\ NonDecreasing(requests[u])
    /\ \A g \in Goroutines :
          rl[g].pc \in {"unlock", "done"} =>
              \A i \in 1..Len(Lookup(requests, rl[g].user)) :
                  Lookup(requests, rl[g].user)[i] > rl[g].now - cfg.window

\* a call has dropped an aged timestamp and appended its own to a window that
\* is full again, with two different timestamps
C32_Witness ==
    \E g \in Goroutines :
        /\ rl[g].pc = "done" /\ rl[g].ok /\ rl[g].aged
        /\ Len(Lookup(requests, rl[g].user)) = cfg.limit
        /\ cfg.limit = 2
        /\ Lookup(requests, rl[g].user)[1] < Lookup(requests, rl[g].user)[2]

\* with the limit 0 nothing is ever stored
C32_WitnessZero ==
    \E g \in Goroutines :
        /\ cfg.limit = 0 /\ rl[g].pc = "done" /\ ~rl[g].ok
        /\ Lookup(requests, rl[g].user) = <<>>

(***************************************************************************)
(* C33                                                                     *)
(***************************************************************************)
\* the timestamps of a sequence that lie in the window ending at time t
InWindow(w, t) == SelectSeq(w, LAMBDA ts : ts > t - cfg.window /\ ts <= t)

\* the part of every stored window that is still inside the window is made
\* of the admitted timestamps and of nothing else
C33_OnlyAdmittedStored ==
    \A u \in Requesters : InWindow(Lookup(requests, u), clock) = InWindow(admitted[u], clock)

\* a call that rejects stores nothing, and a call is admitted exactly when
\* fewer than N admitted timestamps lie in its window, whatever was rejected
C33_DecisionStep ==
    \A g \in Goroutines :
        (rl[g].pc = "check" /\ rl'[g].pc # "check") =>
            /\ (rl'[g].pc = "append") <=>
                   (Len(InWindow(admitted[rl[g].user], rl[g].now)) < cfg.limit)
            /\ (rl'[g].pc = "unlock") => requests' = requests

\* C33: an Allow call that rejects a request records no timestamp for it;
\* rejected requests never count toward the limit, so a requester sending
\* while rate-limited is admitted again as soon as the oldest admitted
\* timestamp has left the window, however many requests were rejected.
C33_RejectedNotCounted == []C33_OnlyAdmittedStored /\ [][C33_DecisionStep]_vars

\* one call of a requester was rejected at a full window; a later call of the
\* same requester, made when the oldest timestamp had aged out, was admitted
C33_Witness ==
    \E g, h \in Goroutines :
        /\ g # h /\ rl[g].user = rl[h].user
        /\ rl[g].pc = "done" /\ ~rl[g].ok
        /\ rl[h].pc = "done" /\ rl[h].ok /\ rl[h].aged
        /\ rl[g].now < rl[h].now
        /\ cfg.limit >= 1
        /\ Len(Lookup(requests, rl[h].user)) = cfg.limit

(***************************************************************************)
(* C34                                                                     *)
(***************************************************************************)
\* handling an update: what ValidateMessage did to the windows
C34_GateStep ==
    (ev.at = "handle" /\ ev'.at = "handled") =>
        /\ ev'.err = "ChatNotAllowed" => requests' = requests
        /\ ev'.err = "ErrInvalidInput" =>
              /\ Lookup(requests', ev.update.from) =
                     Append(Prune(Lookup(requests, ev.update.from), clock - cfg.window), clock)
              /\ \A u \in Requesters \ {ev.update.from} :
                     Lookup(requests', u) = Lookup(requests, u)

\* C34: a request rejected with ChatNotAllowed leaves every rate-limit window
\* unchanged; a request that passes the allow-list check and is rejected for
\* its message length has consumed one slot of its requester's window.
C34_SlotBeforeLength == [][C34_GateStep]_vars

\* a message rejected for its length, its time stored in the sender's window
C34_Witness ==
    /\ ev.at = "handled" /\ ev.err = "ErrInvalidInput"
    /\ Lookup(requests, ev.update.from) = <<clock>>

\* a message from a chat outside the list was rejected at a time when the
\* sender's window was empty, and the window is empty still
C34_WitnessChat ==
    /\ ev.at = "handled" /\ ev.err = "ChatNotAllowed"
    /\ Lookup(requests, ev.update.from) = <<>>
    /\ clock > 0

(***************************************************************************)
(* C35                                                                     *)
(***************************************************************************)
\* the goroutine g takes a step of its Allow call
StepOf(g) == rl'[g] # rl[g] /\ rl[g].pc \in {"prune", "check", "append"}

\* a step of an Allow call for x leaves the windows of the others as they
\* are, and its decision follows from x's own admitted requests and its time
C35_OwnWindowStep ==
    \A g \in Goroutines :
        StepOf(g) =>
            /\ \A y \in Requesters \ {rl[g].user} :
                   /\ Lookup(requests', y) = Lookup(requests, y)
                   /\ admitted'[y] = admitted[y]
            /\ rl[g].pc = "check" =>
                   ((rl'[g].pc = "unlock") <=>
                        (Len(InWindow(admitted[rl[g].user], rl[g].now)) >= cfg.limit))

\* C35: an Allow call for requester x changes only x's window; whether a
\* requester y is admitted depends on y's own earlier admitted requests and
\* the current time, never on the requests of another requester.
C35_PerRequester == [][C35_OwnWindowStep]_vars

\* one requester was rejected at its full window while the other requester,
\* at the same time, was admitted
C35_Witness ==
    \E g, h \in Goroutines :
        /\ rl[g].pc = "done" /\ ~rl[g].ok
        /\ rl[h].pc = "done" /\ rl[h].ok
        /\ rl[g].user # rl[h].user
        /\ rl[g].now = rl[h].now
        /\ cfg.limit >= 1
        /\ Len(InWindow(Lookup(requests, rl[g].user), rl[g].now)) = cfg.limit

(***************************************************************************)
(* C36                                                                     *)
(***************************************************************************)
\* C36: after RemoveRole(r) has succeeded on a role with members and
\* CreateRole(r) has then succeeded, GetUsersInRole(r) returns the empty
\* sequence until an AddUserToRole(r, _) succeeds: the memberships of the
\* removed role do not reappear on the re-created role.
C36_RecreatedEmpty ==
    /\ scn.step = 2 =>
          /\ RoleExists(db, scn.r)
          /\ GetUsersInRole(db, scn.r).users = <<>>
          /\ \A i \in 1..Len(scn.reads) : scn.reads[i] = <<>>
    /\ scn.step = 1 => GetUsersInRole(db, scn.r).users = <<>>

\* a role that had a member was removed and created again, a read of it came
\* back empty, and the user of the old membership is still stored
C36_Witness ==
    /\ scn.step = 2 /\ scn.reads = << <<>> >>
    /\ last.op = "GetUsersInRole" /\ last.users = <<>>
    /\ SanitizeRoleName(last.role) = scn.r
    /\ db.users # {}
    /\ db.seqRoles >= 2

\* after the re-creation one member was added, and the role has that member
\* only although two users are stored
C36_WitnessAdded ==
    /\ scn.step = 3
    /\ Len(GetUsersInRole(db, scn.r).users) = 1
    /\ Cardinality(db.users) = 2

(***************************************************************************)
(* C37                                                                     *)
(***************************************************************************)
\* what a successful RemoveRole and a successful CreateRole change
C37_FrameStep ==
    /\ (last'.op = "RemoveRole" /\ last'.err = "nil") =>
          \E gone \in {RoleIds(db, SanitizeRoleName(last'.role))} :
              /\ gone # {}
              /\ db'.roles = {r \in db.roles : r.id \notin gone}
              /\ db'.users = db.users
              /\ db'.role_users = {e \in db.role_users : e.role_id \notin gone}
    /\ (last'.op = "CreateRole" /\ last'.err = "nil") =>
          /\ db'.users = db.users
          /\ db'.role_users = db.role_users
          /\ db.roles \subseteq db'.roles
          /\ \E r \in db'.roles :
                /\ db'.roles \ db.roles = {r}
                /\ r.name = SanitizeRoleName(last'.role)
                /\ \A e \in db'.role_users : e.role_id # r.id

\* C37: a successful RemoveRole(r) leaves every other role, every user row
\* (those of users that were members of r only included) and every edge of
\* every other role unchanged; a successful CreateRole changes nothing
\* except adding one role with no edges.
C37_RoleCallsFrame == [][C37_FrameStep]_vars

\* a role was removed; another role with its member is left, and so is the
\* row of a user that belonged to the removed role only
C37_Witness ==
    /\ last.op = "RemoveRole" /\ last.err = "nil"
    /\ db.roles # {} /\ db.role_users # {}
    /\ \E u \in db.users : \A e \in db.role_users : e.user_id # u.id

\* a second role was created beside a role with a member
C37_WitnessCreate ==
    /\ last.op = "CreateRole" /\ last.err = "nil"
    /\ Cardinality(db.roles) = 2 /\ db.role_users # {}

(***************************************************************************)
(* C38                                                                     *)
(***************************************************************************)
\* C38: every role name returned by GetAllRoles identifies its role when it
\* is passed back: RemoveRole(n) succeeds and removes that role, and
\* AddUserToRole(n, u) with a valid u does not fail with ErrRoleNotFound;
\* names cut at the length cap included.
C38_NamesRoundTrip ==
    \A i \in 1..Len(GetAllRoles(db).roles) :
        \E n \in {GetAllRoles(db).roles[i]} :
            /\ RemoveRole(db, n).err = "nil"
            /\ ~RoleExists(RemoveRole(db, n).db, n)
            /\ AddUserToRole(db, n, <<"a">>).err # "ErrRoleNotFound"

\* the names that are their own normal form do identify their roles
C38_NormalNamesRoundTrip ==
    \A i \in 1..Len(GetAllRoles(db).roles) :
        \E n \in {GetAllRoles(db).roles[i]} :
            SanitizeRoleName(n) = n =>
                /\ RemoveRole(db, n).err = "nil"
                /\ ~RoleExists(RemoveRole(db, n).db, n)
                /\ AddUserToRole(db, n, <<"a">>).err # "ErrRoleNotFound"

\* a listed name that the store does not find again
C38_WitnessLost ==
    \E i \in 1..Len(GetAllRoles(db).roles) :
        RemoveRole(db, GetAllRoles(db).roles[i]).err = "ErrRoleNotFound"

(***************************************************************************)
(* C39                                                                     *)
(***************************************************************************)
\* the chat ids that appear as valid integer entries of a value
ValidEntries(env) ==
    {ParseInt(TrimSpace(SplitComma(env)[i])).value :
        i \in {j \in 1..Len(SplitComma(env)) : ParseInt(TrimSpace(SplitComma(env)[j])).ok}}

\* C39: whenever ALLOWED_CHATS is set to a non-empty string, ValidateMessage
\* rejects every message from a chat whose id is not a valid integer entry
\* of the value, also when none of the entries parses as an integer.
C39_RestrictionEnforced ==
    (/\ ev.at = "handled" /\ ev.update.message
     /\ cfg.ALLOWED_CHATS # <<>>
     /\ ev.update.chat \notin ValidEntries(cfg.ALLOWED_CHATS))
        => ev.err = "ChatNotAllowed"

\* what the code enforces: the restriction when at least one entry parses
C39_EnforcedWithValidEntry ==
    (/\ ev.at = "handled" /\ ev.update.message
     /\ ValidEntries(cfg.ALLOWED_CHATS) # {}
     /\ ev.update.chat \notin ValidEntries(cfg.ALLOWED_CHATS))
        => ev.err = "ChatNotAllowed"

\* a value without a valid entry, and a message answered all the same
C39_WitnessOpen ==
    /\ ev.at = "handled" /\ ev.update.message
    /\ cfg.ALLOWED_CHATS # <<>> /\ ValidEntries(cfg.ALLOWED_CHATS) = {}
    /\ ev.err = "nil" /\ ev.sends = 1

\* a value with a valid entry beside an invalid one, and a message from
\* another chat rejected
C39_WitnessEnforced ==
    /\ ev.at = "handled" /\ ev.err = "ChatNotAllowed"
    /\ cfg.ALLOWED_CHATS = <<"2", ",", "x">> /\ ev.update.chat = 1

====
